---- MODULE Spec2Model ----
(***************************************************************************)
(* Session and process orchestration of the CLI-agent bridge:              *)
(*   SessionStore (session-store.ts), ClaudeProcess (claude-process.ts),   *)
(*   CodexProcess (claude-runner.ts), the WS task handler                  *)
(*   (arinova-agent.ts) and the HTTP completion handler (part_000).        *)
(*                                                                         *)
(* Node.js runs one callback at a time.  A "macrotask" (a child event, a   *)
(* timer, an inbound request, an abort signal) is one action; the promise  *)
(* continuations it queues (microtasks) are the actions whose task is at   *)
(* a pc in Immediate, and they run before the next macrotask: every        *)
(* macrotask action is guarded by Quiescent.                               *)
(***************************************************************************)
EXTENDS Integers, Sequences, FiniteSets, TLC

\* ---------------------------------------------------------------- bounds
MaxText == 2         \* length of a text a child produces in one message
MaxTime == 1         \* clock ticks
MaxSessions == 2     \* the largest configured maxSessions
IdleTimeout == 0     \* the configured idleTimeoutMs, in clock ticks

Tasks == {1, 2, 3}             \* requests (WS tasks / HTTP requests)
Solo == {1}                    \* the request of a behaviour with one request
Slots == {1, 2}                \* requests being handled at the same time
ProcIds == {1, 2, 3}           \* process objects ever constructed
ChildIds == {1, 2, 3}          \* child OS processes existing at the same time
Chars == {"a", "b"}
Sids == {1, 2}                 \* backend session / thread ids
WsConvs == <<"c1", "c2", "c3">>   \* the chat server's conversations
DEBUG_CONVERSATION_ID == "debug"
Convs == {WsConvs[i] : i \in 1..Len(WsConvs)} \cup {DEBUG_CONVERSATION_ID}

NoTask == 0                    \* turnResolve = null
NoProc == 0                    \* sessions.get(key) is undefined
NoChild == 0                   \* child = null / currentChild = null
NoSid == 0                     \* sessionId = "" / threadId = null
NoModel == "none"              \* model undefined
CodexModel == "m-e"            \* a member of config.codexModels
Models == {NoModel, CodexModel}
codexModels == {CodexModel}    \* config.codexModels, where it is not varied
EmptyModel == ""               \* the empty string given as a model
DoneText == <<"Done.">>
DefaultCwd == "d0"             \* config.defaultCwd
OtherCwd == "d1"               \* an existing directory given to /new
NoCwd == ""                    \* no cwd override
Cwds == {DefaultCwd, OtherCwd}
ClaudeModel == "m-p"           \* a model name outside config.codexModels
NoOverride == "unset"          \* modelOverrides.get(key) is undefined

VARIABLES
  config,     \* plugin configuration: defaultModel, maxSessions, idleTimeoutMs,
              \* codexModels
  now,        \* Date.now(), in the unit of the idle timeout
  sessions,   \* SessionStore.sessions: conv -> process id of its entry
  order,      \* insertion order of the keys of SessionStore.sessions
  dead,       \* SessionStore.deadSessionIds: sid -> record
  persisted,  \* SessionStore.persisted: conv -> record
  procs,      \* the process objects (with the fields of their SessionEntry)
  children,   \* the child OS processes
  tasks,      \* the requests being handled
  mutex,      \* HTTP mutex: the requests queued on it, the head holds it
  cwdOverrides,    \* CommandHandler.cwdOverrides: conv -> cwd
  modelOverrides,  \* CommandHandler.modelOverrides: conv -> model
  saveTimer,  \* the debounce timeouts of scheduleSave that are armed
  disk,       \* the content of bridge-sessions.json
  wall,       \* new Date(), the clock of the updatedAt stamps
  fileOp      \* (observation only) the last operation on the file: load, save, or
              \* reload for a load that follows a save with nothing in between

cmdVars == <<cwdOverrides, modelOverrides>>
diskVars == <<saveTimer, disk, wall, fileOp>>
vars == <<config, now, sessions, order, dead, persisted, procs, children, tasks, mutex,
          cmdVars, diskVars>>

NoProcRec ==
  [backend |-> "none", model |-> NoModel, cwd |-> NoCwd, lastActivity |-> 0, resumeId |-> NoSid,
   child |-> NoChild, alive |-> FALSE, stopped |-> FALSE, sessionId |-> NoSid,
   turn |-> NoTask, sink |-> NoTask, prose |-> <<>>]

NoChildRec ==
  [proc |-> NoProc, state |-> "none", killed |-> FALSE, resume |-> FALSE,
   owner |-> NoTask, sid |-> NoSid, pending |-> 0, item |-> <<>>, started |-> FALSE,
   \* a SIGKILL was sent to the child (observation only)
   sigkill |-> FALSE]

NoTaskRec ==
  [kind |-> "none", conv |-> "", reqModel |-> NoModel, pc |-> "idle",
   proc |-> NoProc, aborted |-> FALSE, listening |-> FALSE,
   child |-> NoChild, lastSent |-> 0, final |-> <<>>, err |-> FALSE,
   isResume |-> FALSE, isRetry |-> FALSE,
   resText |-> <<>>, resSid |-> NoSid,
   \* what the frontend saw, and what the handler did (observation only)
   delivered |-> <<>>, completes |-> 0, errors |-> 0, sends |-> 0, fails |-> 0,
   restarted |-> FALSE, abortPhase |-> "none", abortCalled |-> FALSE,
   lateChunk |-> FALSE, lateSpawn |-> FALSE, waitChild |-> NoChild,
   \* a slash command: its name, the entry destroySession found, and the
   \* options of the createSession that follows the destroy
   cmd |-> "msg", entry |-> NoProc, rCwd |-> NoCwd, rModel |-> NoModel, rSid |-> NoSid,
   rows |-> <<>>,               \* the listing /sessions replied with
   \* (observation only) the turn of this request is the most recent one of
   \* its conversation that succeeded; ... that succeeded with a session id
   \* and was not followed by a clear of the persisted entry
   last |-> FALSE, lastId |-> FALSE,
   \* (observation only) the children the current sendMessage spawned, and
   \* the thread id its resume-retry discarded
   spawns |-> 0, discarded |-> NoSid,
   \* the streaming HTTP response: the keep-alive interval is set; the
   \* frames written from the finish chunk on, and (observation only) a
   \* keep-alive frame was written, a frame was written after res.end()
   keepAlive |-> FALSE, sse |-> <<>>, pinged |-> FALSE, lateFrame |-> FALSE,
   \* a call of stopAll: the children whose stop() has not resolved yet
   waitSet |-> {},
   \* (observation only) the request that held the mutex when this one
   \* called mutex.run
   behind |-> NoTask,
   \* (observation only) the process of the session a /resume or /compact
   \* created
   made |-> NoProc]

NoDead == [backend |-> "none", model |-> NoModel, cwd |-> NoCwd]
\* existsSync(persistPath) is false
NoFile == [kind |-> "missing", members |-> <<>>]
NoPersisted == [sessionId |-> NoSid, backend |-> "none", model |-> NoModel, cwd |-> NoCwd,
                updatedAt |-> 0]

\* pcs at which a task's continuation is a queued microtask
Immediate == {"lookup", "send1", "caught1", "restarted", "send2", "caught2", "resolved",
              "destroyed", "stopped"}
Waiting == {"wait1", "wait2"}

\* createMutex: pending = next.then(() => {}, () => {}): the mutex passes
\* to the next caller when the function of its holder settled, whether it
\* resolved or rejected
\* (variant: a rejection is not swallowed, the chain stays rejected)
ReleaseIfResolved(m, rejected) == IF rejected THEN m ELSE Tail(m)

Release(m, rejected) == Tail(m)

\* the continuation of task t is a queued microtask (mutex.run calls fn in
\* a continuation of the promise of the previous holder)
Runnable(t) ==
  \/ tasks[t].pc \in Immediate
  \/ tasks[t].pc = "queued" /\ Head(mutex) = t

Quiescent == \A t \in Tasks : ~Runnable(t)

Min(S) == CHOOSE x \in S : \A y \in S : x <= y

FreeChildren(cs) == {ch \in ChildIds : cs[ch].state = "none"}
FreeProcs(ps) == {p \in ProcIds : ps[p].backend = "none"}

\* ------------------------------------------------------------ SessionStore

\* (variant: only an absent model is taken for falsy)
resolveBackendByMembership(cm, model) ==
  IF model = NoModel THEN "claude"
  ELSE IF model \in cm THEN "codex" ELSE "claude"

\* resolveBackend of a store whose config.codexModels is cm; !model holds
\* for an absent model and for the empty string
resolveBackendIn(cm, model) ==
  IF model \in {NoModel, EmptyModel} THEN "claude"
  ELSE IF model \in cm THEN "codex" ELSE "claude"

resolveBackend(model) == resolveBackendIn(config.codexModels, model)

\* CodexProcess.isBusy: this.currentChild !== null
CodexIsBusy(pr) == pr.child # NoChild

\* ClaudeProcess.isBusy: a turn is in flight
ClaudeIsBusy(pr) == pr.turn # NoTask

\* entry.process.isBusy()
isBusy(pr) == IF pr.backend = "codex" THEN CodexIsBusy(pr) ELSE ClaudeIsBusy(pr)

\* CodexProcess.isAlive / ClaudeProcess.isAlive
isAlive(pr) ==
  IF pr.backend = "codex" THEN ~pr.stopped ELSE pr.alive

\* CodexProcess.getSessionId / ClaudeProcess.getSessionId
getSessionId(pr) == pr.sessionId

\* (variant: every rejection is handled by the catch block that retries)
RejectedToRetry(tk) ==
  [tk EXCEPT !.pc = "caught1", !.fails = tk.fails + 1, !.child = NoChild]

\* A promise of task record tk rejected: its continuation is the catch block
Rejected(tk) ==
  [tk EXCEPT !.pc = IF tk.pc = "wait1" THEN "caught1" ELSE "caught2",
             !.fails = tk.fails + 1, !.child = NoChild]

\* ---- stop() of every process in S, as ClaudeProcess.stop / CodexProcess.stop
StoppedRec(pr) ==
  IF pr.backend = "codex"
  THEN [pr EXCEPT !.stopped = TRUE]
  ELSE IF pr.child = NoChild THEN pr
       ELSE [pr EXCEPT !.child = NoChild, !.alive = FALSE, !.sessionId = NoSid,
                       !.turn = NoTask]

StopProcs(ps, S) == [p \in ProcIds |-> IF p \in S THEN StoppedRec(ps[p]) ELSE ps[p]]

StopChildren(cs, ps, S) ==
  [ch \in ChildIds |->
     IF cs[ch].state = "running" /\ cs[ch].proc \in S /\ ps[cs[ch].proc].child = ch
     THEN [cs[ch] EXCEPT !.killed = TRUE]
     ELSE cs[ch]]

StopTasks(ts, ps, S) ==
  [t \in Tasks |->
     IF \E p \in S : ps[p].backend = "claude" /\ ps[p].child # NoChild /\ ps[p].turn = t
     THEN Rejected(ts[t])
     ELSE ts[t]]

\* ---- ClaudeProcess.start: spawn the persistent child
StartedRec(pr, ch) ==
  IF pr.child # NoChild THEN pr ELSE [pr EXCEPT !.child = ch, !.alive = TRUE]

SpawnedClaude(p, sid) ==
  [NoChildRec EXCEPT !.proc = p, !.state = "running", !.sid = sid]

\* ---- enforceMaxSessions: the key it evicts, "" when none
\* (variant: the busy test left out)
EvictableAny(entry) == TRUE

Evictable(entry) == ~isBusy(entry)

\* (variant: a full map counts as below capacity)
BelowOrAtCapacity(size) == size <= config.maxSessions

BelowCapacity(size) == size < config.maxSessions

RECURSIVE OldestFrom(_, _, _, _, _)
OldestFrom(keys, sess, ps, oldestKey, oldestTime) ==
  IF keys = <<>> THEN oldestKey
  ELSE LET key == Head(keys)
           entry == ps[sess[key]]
       IN IF Evictable(entry) /\ (oldestKey = "" \/ entry.lastActivity < oldestTime)
          THEN OldestFrom(Tail(keys), sess, ps, key, entry.lastActivity)
          ELSE OldestFrom(Tail(keys), sess, ps, oldestKey, oldestTime)

EvictKey(ord, sess, ps) ==
  IF BelowCapacity(Len(ord)) THEN ""
  ELSE OldestFrom(ord, sess, ps, "", 0)

Remove(seq, x) == SelectSeq(seq, LAMBDA y : y # x)

DeadRec(pr) == [backend |-> pr.backend, model |-> pr.model, cwd |-> pr.cwd]

\* deadSessionIds after the sessions of the keys ks (in iteration order) left
\* the map: deadSessionIds.set(sid, ...) for every non-empty sid, later wins
DeadAfter(dd, sess, ps, ks) ==
  [s \in Sids |->
     LET hits == {i \in 1..Len(ks) : getSessionId(ps[sess[ks[i]]]) = s}
     IN IF hits = {} THEN dd[s]
        ELSE DeadRec(ps[sess[ks[CHOOSE i \in hits : \A j \in hits : j <= i]]])]

\* session ids are interchangeable: a new child reports an id that is in
\* the state already or the first one that is not
UsedSids ==
  {s \in Sids : \/ \E p \in ProcIds : s \in {procs[p].sessionId, procs[p].resumeId}
                \/ \E ch \in ChildIds : s = children[ch].sid
                \/ \E t \in Tasks : s \in {tasks[t].resSid, tasks[t].discarded}
                \/ \E c \in Convs : s = persisted[c].sessionId
                \/ dead[s] # NoDead}
NewSids == UsedSids \cup (IF Sids \ UsedSids = {} THEN {} ELSE {Min(Sids \ UsedSids)})

\* The registry part of the state, as one value that the handlers transform
Reg == [sessions |-> sessions, order |-> order, dead |-> dead,
        procs |-> procs, children |-> children, tasks |-> tasks]

\* enforceMaxSessions on registry state r
enforceMaxSessions(r) ==
  LET oldestKey == EvictKey(r.order, r.sessions, r.procs)
  IN IF oldestKey = "" THEN r
     ELSE LET S == {r.sessions[oldestKey]}
          IN [sessions |-> [r.sessions EXCEPT ![oldestKey] = NoProc],
              order |-> Remove(r.order, oldestKey),
              dead |-> DeadAfter(r.dead, r.sessions, r.procs, <<oldestKey>>),
              procs |-> StopProcs(r.procs, S),
              children |-> StopChildren(r.children, r.procs, S),
              tasks |-> StopTasks(r.tasks, r.procs, S)]

\* the resume id createSession passes to the new process
\* variant: the persisted id is adopted whatever its backend
ResumeIdAnyBackend(c, backend, resumeOpt) ==
  IF resumeOpt # NoSid THEN resumeOpt ELSE persisted[c].sessionId

\* variant: the resume id of the options is ignored
ResumeIdPersisted(c, backend, resumeOpt) ==
  IF persisted[c].backend = backend /\ persisted[c].sessionId # NoSid
  THEN persisted[c].sessionId
  ELSE NoSid

ResumeIdFor(c, backend, resumeOpt) ==
  IF resumeOpt # NoSid THEN resumeOpt
  ELSE IF persisted[c].backend = backend /\ persisted[c].sessionId # NoSid
       THEN persisted[c].sessionId
       ELSE NoSid

\* createSession can allocate what it needs (the pools are bounded)
CanCreate(r0, model) ==
  LET r == enforceMaxSessions(r0)
  IN /\ FreeProcs(r.procs) # {}
     /\ resolveBackend(model) = "claude" => FreeChildren(r.children) # {}

\* createSession(conversationId, {model, resumeSessionId}) on registry state
\* r0; sid is the session id the spawned persistent child will report
createSession(r0, c, cwd, model, resumeOpt, sid) ==
  LET r == enforceMaxSessions(r0)
      backend == resolveBackend(model)
      resumeId == ResumeIdFor(c, backend, resumeOpt)
      p == Min(FreeProcs(r.procs))
      ch == Min(FreeChildren(r.children))
      fresh == [NoProcRec EXCEPT !.backend = backend, !.model = model, !.cwd = cwd,
                                 !.lastActivity = now, !.resumeId = resumeId,
                                 !.sessionId = IF backend = "codex" THEN resumeId ELSE NoSid]
  IN [sessions |-> [r.sessions EXCEPT ![c] = p],
      order |-> IF r.sessions[c] # NoProc THEN r.order ELSE Append(r.order, c),
      dead |-> r.dead,
      procs |-> [r.procs EXCEPT ![p] =
                   IF backend = "claude" THEN StartedRec(fresh, ch) ELSE fresh],
      children |-> IF backend = "claude"
                   THEN [r.children EXCEPT ![ch] = SpawnedClaude(p, sid)]
                   ELSE r.children,
      tasks |-> r.tasks]

SetReg(r) ==
  /\ sessions' = r.sessions
  /\ order' = r.order
  /\ dead' = r.dead
  /\ procs' = r.procs
  /\ children' = r.children
  /\ tasks' = r.tasks

\* scheduleSave on n armed timeouts: arm one unless one is armed
\* (variant: a timeout is armed by every call)
ArmedNever(n) == FALSE

Armed(n) == n > 0

\* (variant: no timeout is armed)
scheduleSaveNever(n) == n

scheduleSave(n) == IF Armed(n) THEN n ELSE n + 1

\* (variant: the entry keeps the cwd it had)
persistSessionKeepCwd(ps, c, sid, backend, model, cwd) ==
  [ps EXCEPT ![c] = [sessionId |-> sid, backend |-> backend, model |-> model,
                     cwd |-> ps[c].cwd, updatedAt |-> wall]]

\* (variant: a second persist of a session id drops the entry)
persistSessionFlip(ps, c, sid, backend, model, cwd) ==
  IF ps[c].sessionId = sid THEN [ps EXCEPT ![c] = NoPersisted]
  ELSE [ps EXCEPT ![c] = [sessionId |-> sid, backend |-> backend, model |-> model,
                          cwd |-> cwd, updatedAt |-> wall]]

\* SessionStore.persistSession: the entry written to the in-memory map (an
\* undefined model is stored as "", both are NoModel here)
persistSession(ps, c, sid, backend, model, cwd) ==
  [ps EXCEPT ![c] = [sessionId |-> sid, backend |-> backend, model |-> model,
                     cwd |-> cwd, updatedAt |-> wall]]

\* CommandHandler.getModelForConversation
getModelForConversation(c) ==
  IF modelOverrides[c] # NoOverride THEN modelOverrides[c] ELSE config.defaultModel

\* CommandHandler.getCwdForConversation
getCwdForConversation(c) ==
  IF cwdOverrides[c] # NoCwd THEN cwdOverrides[c] ELSE DefaultCwd

\* ------------------------------------------------------- the WS task handler

InFlight == {u \in Tasks : tasks[u].pc \notin {"idle", "done"}}

\* conversation ids are interchangeable: a task is of a conversation seen
\* before or of the first one not seen yet
UsedConvs == {tasks[u].conv : u \in {u \in Tasks : tasks[u].kind = "ws"}}
NextConv ==
  LET unseen == {i \in 1..Len(WsConvs) : WsConvs[i] \notin UsedConvs}
  IN IF unseen = {} THEN WsConvs[1] ELSE WsConvs[Min(unseen)]

\* a task arrives from the chat server; content is a regular message, so
\* commandHandler.handle returns {handled: false}
TaskArrive(t, c) ==
  /\ Quiescent
  /\ tasks[t].pc = "idle"
  /\ \A u \in Tasks : u < t => tasks[u].pc # "idle"
  /\ Cardinality(InFlight) < Cardinality(Slots)
  /\ c \in UsedConvs \cup {NextConv}
  /\ tasks' = [tasks EXCEPT ![t] = [NoTaskRec EXCEPT !.kind = "ws", !.conv = c, !.pc = "lookup"]]
  /\ UNCHANGED <<cmdVars, diskVars, config, now, sessions, order, dead, persisted, procs, children, mutex>>

\* getSession / createSession, then the abort listener is registered
WsLookup(t) ==
  /\ tasks[t].kind = "ws"
  /\ tasks[t].pc = "lookup"
  /\ LET c == tasks[t].conv
         p0 == sessions[c]
     IN IF p0 # NoProc /\ isAlive(procs[p0])
        THEN /\ procs' = [procs EXCEPT ![p0].lastActivity = now]
             /\ tasks' = [tasks EXCEPT ![t].proc = p0, ![t].listening = TRUE, ![t].pc = "send1"]
             /\ UNCHANGED <<sessions, order, dead, children>>
        ELSE /\ CanCreate(Reg, getModelForConversation(c))
             /\ \E sid \in NewSids :
                  LET r == createSession(Reg, c, getCwdForConversation(c),
                                         getModelForConversation(c), NoSid, sid)
                  IN SetReg([r EXCEPT !.tasks =
                       [r.tasks EXCEPT ![t].proc = r.sessions[c], ![t].listening = TRUE,
                                       ![t].pc = "send1"]])
  /\ UNCHANGED <<cmdVars, diskVars, config, now, persisted, mutex>>

\* ------------------------------------------------------- the slash commands

ReplyText == <<"reply">>
BadPath == "nowhere"           \* a path for which existsSync is false
NoPathText == <<"no such path">>   \* the reply of /new for such a path

\* sseFinish: the finish chunk, the [DONE] frame, res.end()
sseFinish(frames) == frames \o <<"finish", "done", "end">>

\* CommandHandler.reply: sendChunk(text); sendComplete(text); the handler
\* returns and its locals are gone
\* (on HTTP the reply is collected and sent by sseFullMessage)
Replied(tk) ==
  [tk EXCEPT !.pc = "done", !.delivered = tk.delivered \o ReplyText,
             !.resText = ReplyText, !.completes = tk.completes + 1,
             !.entry = NoProc, !.rCwd = NoCwd, !.rModel = NoModel, !.rSid = NoSid,
             !.sse = IF tk.kind = "http" THEN sseFinish(tk.sse) ELSE tk.sse]

\* destroySession(c) on registry state r up to its await: the session id of
\* the entry is recorded and stop() is called
destroySession(r, c) ==
  LET p0 == r.sessions[c]
  IN IF p0 = NoProc THEN r
     ELSE [r EXCEPT !.dead = DeadAfter(r.dead, r.sessions, r.procs, <<c>>),
                    !.procs = StopProcs(r.procs, {p0}),
                    !.children = StopChildren(r.children, r.procs, {p0}),
                    !.tasks = StopTasks(r.tasks, r.procs, {p0})]

\* the child whose close the stop() of destroySession(c) waits for
StopAwaits(c) ==
  LET p0 == sessions[c]
  IN IF p0 # NoProc /\ procs[p0].backend = "claude" THEN procs[p0].child ELSE NoChild

\* task record tk has called destroySession(c) and awaits it
Destroying(tk, c) ==
  [tk EXCEPT !.entry = sessions[c], !.waitChild = StopAwaits(c),
             !.pc = IF StopAwaits(c) # NoChild THEN "destroywait" ELSE "destroyed"]

\* a task that is a slash command arrives from the chat server
CommandArrives(t, c) ==
  /\ Quiescent
  /\ tasks[t].pc = "idle"
  /\ \A u \in Tasks : u < t => tasks[u].pc # "idle"
  /\ Cardinality(InFlight) < Cardinality(Slots)
  /\ c \in UsedConvs \cup {NextConv}

\* SessionStore.clearPersistedSession
clearPersistedSession(ps, c) == [ps EXCEPT ![c] = NoPersisted]

\* (observation only) the persisted entry of c was cleared after the turns
\* that succeeded so far
Cleared(ts, c) ==
  [u \in Tasks |-> IF ts[u].conv = c THEN [ts[u] EXCEPT !.lastId = FALSE] ELSE ts[u]]

\* the command task of conversation c with name cmd
CommandTask(c, cmd) == [NoTaskRec EXCEPT !.kind = "ws", !.conv = c, !.cmd = cmd]

\* handleNew up to the await of destroySession, for the command task tk0
handleNew(t, tk0, c, path) ==
  /\ IF path = BadPath
     THEN /\ tasks' = [tasks EXCEPT ![t] = [Replied(tk0) EXCEPT !.resText = NoPathText,
                                                               !.delivered = NoPathText]]
          /\ UNCHANGED <<cwdOverrides, persisted, saveTimer, sessions, order, dead, procs,
                         children>>
     ELSE /\ cwdOverrides' = [cwdOverrides EXCEPT ![c] = path]
          /\ persisted' = clearPersistedSession(persisted, c)
          /\ saveTimer' = IF persisted[c] # NoPersisted THEN scheduleSave(saveTimer)
                          ELSE saveTimer
          /\ LET r == destroySession(Reg, c)
             IN SetReg([r EXCEPT !.tasks =
                  [Cleared(r.tasks, c) EXCEPT ![t] = Destroying(tk0, c)]])
  /\ UNCHANGED <<config, now, mutex, modelOverrides, disk, wall, fileOp>>

\* /new arrives as a task from the chat server
NewArrive(t, c, path) ==
  /\ CommandArrives(t, c)
  /\ handleNew(t, CommandTask(c, "new"), c, path)

\* handleModel with an argument, up to the await of destroySession
ModelArrive(t, c, m) ==
  /\ CommandArrives(t, c)
  /\ LET currentEntry == sessions[c]
         newBackend == resolveBackend(m)
         changed == currentEntry # NoProc /\ procs[currentEntry].backend # newBackend
     IN /\ modelOverrides' = [modelOverrides EXCEPT ![c] = m]
        /\ persisted' = IF changed THEN clearPersistedSession(persisted, c) ELSE persisted
        /\ saveTimer' = IF changed /\ persisted[c] # NoPersisted THEN scheduleSave(saveTimer)
                        ELSE saveTimer
        /\ LET r == destroySession(Reg, c)
           IN SetReg([r EXCEPT !.tasks =
                [(IF changed THEN Cleared(r.tasks, c) ELSE r.tasks)
                   EXCEPT ![t] = Destroying(CommandTask(c, "model"), c)]])
  /\ UNCHANGED <<config, now, mutex, cwdOverrides, disk, wall, fileOp>>

\* handleCompact up to the await of destroySession
CompactArrive(t, c) ==
  /\ CommandArrives(t, c)
  /\ LET p0 == sessions[c]
     IN IF p0 = NoProc \/ ~isAlive(procs[p0]) \/ getSessionId(procs[p0]) = NoSid
        THEN /\ tasks' = [tasks EXCEPT ![t] = Replied(CommandTask(c, "compact"))]
             /\ UNCHANGED <<sessions, order, dead, procs, children>>
        ELSE LET r == destroySession(Reg, c)
                 tk == [CommandTask(c, "compact") EXCEPT
                          !.rCwd = getCwdForConversation(c),
                          !.rModel = getModelForConversation(c),
                          !.rSid = getSessionId(procs[p0])]
             IN SetReg([r EXCEPT !.tasks = [r.tasks EXCEPT ![t] = Destroying(tk, c)]])
  /\ UNCHANGED <<config, now, mutex, persisted, cmdVars, diskVars>>

\* handleResume with the argument sid, and resumeSession up to the await of
\* destroySession, for the command task tk0
handleResume(t, tk0, c, sid) ==
  /\ LET existing == sessions[c]
         cwd == IF dead[sid] # NoDead THEN dead[sid].cwd
                ELSE IF existing # NoProc THEN procs[existing].cwd ELSE DefaultCwd
         model == IF dead[sid] # NoDead /\ dead[sid].model # NoModel THEN dead[sid].model
                  ELSE IF existing # NoProc THEN procs[existing].model ELSE NoModel
         r == destroySession(Reg, c)
         tk == [tk0 EXCEPT !.rCwd = cwd, !.rModel = model, !.rSid = sid]
     IN SetReg([r EXCEPT !.tasks = [r.tasks EXCEPT ![t] = Destroying(tk, c)]])
  /\ UNCHANGED <<config, now, mutex, persisted, cmdVars, diskVars>>

\* /resume <sid> arrives as a task from the chat server
ResumeArrive(t, c, sid) ==
  /\ CommandArrives(t, c)
  /\ handleResume(t, CommandTask(c, "resume"), c, sid)

\* the ids of S in increasing order
RECURSIVE Sorted(_)
Sorted(S) == IF S = {} THEN <<>> ELSE <<Min(S)>> \o Sorted(S \ {Min(S)})

\* (variant: a live session is listed whether it has a session id or not)
HasRowAlways(pr) == TRUE

\* listSessions: if (sid) result.push(...)
HasRow(pr) == getSessionId(pr) # NoSid

\* (variant: the dead records are not filtered by the live ids)
NotActiveAlways(activeSids, s) == TRUE

\* listSessions: !activeSids.has(sid)
NotActive(activeSids, s) == s \notin activeSids

\* SessionStore.listSessions (the cost of a row is left out; the dead rows
\* come in the order of the ids, the insertion order of deadSessionIds not
\* being kept here)
listSessions ==
  LET keys == SelectSeq(order, LAMBDA c : HasRow(procs[sessions[c]]))
      result == [i \in 1..Len(keys) |->
                  LET entry == procs[sessions[keys[i]]]
                  IN [conversationId |-> keys[i], sessionId |-> getSessionId(entry),
                      alive |-> isAlive(entry), backend |-> entry.backend, cwd |-> entry.cwd,
                      model |-> entry.model, lastActivity |-> entry.lastActivity]]
      activeSids == {result[i].sessionId : i \in 1..Len(result)}
      deads == Sorted({s \in Sids : dead[s] # NoDead /\ NotActive(activeSids, s)})
  IN result \o [i \in 1..Len(deads) |->
                 [conversationId |-> "", sessionId |-> deads[i], alive |-> FALSE,
                  backend |-> dead[deads[i]].backend, cwd |-> dead[deads[i]].cwd,
                  model |-> dead[deads[i]].model, lastActivity |-> 0]]

\* handleSessions: the listing is formatted and replied
SessionsArrive(t, c) ==
  /\ CommandArrives(t, c)
  /\ tasks' = [tasks EXCEPT ![t] =
                 [Replied(CommandTask(c, "sessions")) EXCEPT !.rows = listSessions]]
  /\ UNCHANGED <<config, now, mutex, sessions, order, dead, persisted, procs, children,
                 cmdVars, diskVars>>

\* destroySession after its await: this.sessions.delete(conversationId);
\* nothing when it had found no entry
Deleted(r, c, entry) ==
  IF entry = NoProc \/ r.sessions[c] = NoProc THEN r
  ELSE [r EXCEPT !.sessions = [r.sessions EXCEPT ![c] = NoProc],
                 !.order = Remove(r.order, c)]

\* a command after destroySession returned: /compact and /resume create the
\* session that resumes rSid; then the reply
CmdDestroyed(t) ==
  /\ tasks[t].cmd # "msg"
  /\ tasks[t].pc = "destroyed"
  /\ LET c == tasks[t].conv
         r1 == Deleted(Reg, c, tasks[t].entry)
     IN IF tasks[t].cmd \in {"compact", "resume"}
        THEN /\ CanCreate(r1, tasks[t].rModel)
             /\ \E sid \in NewSids :
                  LET r == createSession(r1, c, tasks[t].rCwd, tasks[t].rModel,
                                         tasks[t].rSid, sid)
                  IN SetReg([r EXCEPT !.tasks =
                       [r.tasks EXCEPT ![t] = [Replied(r.tasks[t]) EXCEPT
                                                 !.made = r.sessions[c]]]])
        ELSE SetReg([r1 EXCEPT !.tasks = [r1.tasks EXCEPT ![t] = Replied(r1.tasks[t])]])
  /\ UNCHANGED <<config, now, mutex, persisted, cmdVars, diskVars>>

\* ----------------------------------------------- the HTTP completion handler

\* POST /v1/chat/completions with a regular user message and stream = true;
\* model is body.model (NoModel: absent or "claude-code-cli")
HttpArrive(t, model) ==
  /\ Quiescent
  /\ tasks[t].pc = "idle"
  /\ \A u \in Tasks : u < t => tasks[u].pc # "idle"
  /\ tasks' = [tasks EXCEPT ![t] = [NoTaskRec EXCEPT !.kind = "http", !.reqModel = model,
                                      !.conv = DEBUG_CONVERSATION_ID, !.pc = "queued",
                                      !.behind = IF mutex = <<>> THEN NoTask
                                                 ELSE Head(mutex)]]
  /\ mutex' = Append(mutex, t)
  /\ UNCHANGED <<cmdVars, diskVars, config, now, sessions, order, dead, persisted, procs, children>>

\* cmdModel ?? (model !== "claude-code-cli" ? model : undefined)
effectiveModel(t) ==
  LET cmdModel == getModelForConversation(DEBUG_CONVERSATION_ID)
  IN IF cmdModel # NoModel THEN cmdModel ELSE tasks[t].reqModel

\* the function passed to mutex.run, up to its first await
HttpLookup(t) ==
  /\ tasks[t].pc = "queued"
  /\ Head(mutex) = t
  /\ LET c == DEBUG_CONVERSATION_ID
         p0 == sessions[c]
         requestedBackend == resolveBackend(effectiveModel(t))
     IN IF p0 # NoProc /\ isAlive(procs[p0]) /\ procs[p0].backend # requestedBackend
        THEN \* backend mismatch: await sessionStore.destroySession
             /\ dead' = DeadAfter(dead, sessions, procs, <<c>>)
             /\ procs' = StopProcs(procs, {p0})
             /\ children' = StopChildren(children, procs, {p0})
             /\ tasks' = [StopTasks(tasks, procs, {p0}) EXCEPT
                            ![t].pc = IF procs[p0].backend = "claude" /\ procs[p0].child # NoChild
                                      THEN "destroywait" ELSE "destroyed",
                            ![t].waitChild = IF procs[p0].backend = "claude"
                                             THEN procs[p0].child ELSE NoChild]
             /\ UNCHANGED <<sessions, order>>
        ELSE IF p0 # NoProc /\ isAlive(procs[p0])
        THEN /\ procs' = [procs EXCEPT ![p0].lastActivity = now]
             /\ tasks' = [tasks EXCEPT ![t].proc = p0, ![t].pc = "send1",
                                       ![t].keepAlive = TRUE]
             /\ UNCHANGED <<sessions, order, dead, children>>
        ELSE /\ CanCreate(Reg, effectiveModel(t))
             /\ \E sid \in NewSids :
                  LET r == createSession(Reg, c, getCwdForConversation(c),
                                         effectiveModel(t), NoSid, sid)
                  IN SetReg([r EXCEPT !.tasks =
                       [r.tasks EXCEPT ![t].proc = r.sessions[c], ![t].pc = "send1",
                                       ![t].keepAlive = TRUE]])
  /\ UNCHANGED <<cmdVars, diskVars, config, now, persisted, mutex>>

\* destroySession after stop() resolved: sessions.delete; then createSession
HttpDestroyed(t) ==
  /\ tasks[t].kind = "http"
  /\ tasks[t].cmd = "msg"
  /\ tasks[t].pc = "destroyed"
  /\ LET c == DEBUG_CONVERSATION_ID
         r1 == [Reg EXCEPT !.sessions = [sessions EXCEPT ![c] = NoProc],
                           !.order = Remove(order, c)]
     IN /\ CanCreate(r1, effectiveModel(t))
        /\ \E sid \in NewSids :
             LET r == createSession(r1, c, getCwdForConversation(c),
                                    effectiveModel(t), NoSid, sid)
             IN SetReg([r EXCEPT !.tasks =
                  [r.tasks EXCEPT ![t].proc = r.sessions[c], ![t].pc = "send1",
                                  ![t].keepAlive = TRUE]])
  /\ UNCHANGED <<cmdVars, diskVars, config, now, persisted, mutex>>

\* /new in the latest user message of a completion request: handled before
\* and outside mutex.run
HttpNewArrive(t, path) ==
  /\ Quiescent
  /\ tasks[t].pc = "idle"
  /\ \A u \in Tasks : u < t => tasks[u].pc # "idle"
  /\ handleNew(t, [CommandTask(DEBUG_CONVERSATION_ID, "new") EXCEPT !.kind = "http"],
               DEBUG_CONVERSATION_ID, path)

\* /resume <sid> in the latest user message of a completion request: handled
\* before and outside mutex.run
HttpResumeArrive(t, sid) ==
  /\ Quiescent
  /\ tasks[t].pc = "idle"
  /\ \A u \in Tasks : u < t => tasks[u].pc # "idle"
  /\ handleResume(t, [CommandTask(DEBUG_CONVERSATION_ID, "resume") EXCEPT !.kind = "http"],
                  DEBUG_CONVERSATION_ID, sid)

\* the callback of the keep-alive interval of a streaming request:
\* sseDelta(res, ..., "")
KeepAliveTick(t) ==
  /\ Quiescent
  /\ tasks[t].keepAlive
  /\ tasks' = [tasks EXCEPT ![t].pinged = TRUE,
                            ![t].lateFrame = tasks[t].lateFrame \/ tasks[t].sse # <<>>]
  /\ UNCHANGED <<cmdVars, diskVars, config, now, sessions, order, dead, persisted, procs,
                 children, mutex>>

\* sendChunk(text) of task u's frontend (the delta sink of its turns)
Deliver(ts, u, text) ==
  [ts EXCEPT ![u].delivered = ts[u].delivered \o text,
             ![u].lateChunk = ts[u].lateChunk \/ ts[u].abortPhase = "turn"]

DeliveredCap == 2 * MaxText
CanDeliver(u, text) == Len(tasks[u].delivered) + Len(text) <= DeliveredCap

AfterSend(tk) == [tk EXCEPT !.pc = IF tk.pc = "send1" THEN "wait1" ELSE "wait2",
                            !.sends = tk.sends + 1]
FailedSend(tk) == [tk EXCEPT !.pc = IF tk.pc = "send1" THEN "caught1" ELSE "caught2",
                             !.sends = tk.sends + 1, !.fails = tk.fails + 1]

\* ClaudeProcess.sendMessage(text, onText) called by task t
ClaudeSendMessage(t) ==
  LET p == tasks[t].proc
      pr == procs[p]
  IN IF pr.child = NoChild \/ ~pr.alive
     THEN /\ tasks' = [tasks EXCEPT ![t] = FailedSend(tasks[t])]
          /\ UNCHANGED <<procs, children>>
     ELSE IF pr.turn # NoTask
     THEN /\ tasks' = [tasks EXCEPT ![t] = FailedSend(tasks[t])]
          /\ UNCHANGED <<procs, children>>
     ELSE /\ procs' = [procs EXCEPT ![p].prose = <<>>, ![p].sink = t, ![p].turn = t]
          /\ children' = [children EXCEPT ![pr.child].pending = children[pr.child].pending + 1]
          /\ tasks' = [tasks EXCEPT ![t] = AfterSend(tasks[t])]

\* CodexProcess.runTurn up to its first await: spawn the child of this turn
SpawnedCodex(p, t, isResume) ==
  [NoChildRec EXCEPT !.proc = p, !.state = "running", !.owner = t, !.resume = isResume]

\* CodexProcess.sendMessage(text, onText) called by task t
CodexSendMessage(t) ==
  LET p == tasks[t].proc
      pr == procs[p]
      isResume == pr.sessionId # NoSid
  IN IF pr.stopped
     THEN /\ tasks' = [tasks EXCEPT ![t] = FailedSend(tasks[t])]
          /\ UNCHANGED <<procs, children>>
     ELSE IF pr.turn # NoTask
     THEN /\ tasks' = [tasks EXCEPT ![t] = FailedSend(tasks[t])]
          /\ UNCHANGED <<procs, children>>
     ELSE /\ FreeChildren(children) # {}
          /\ LET ch == Min(FreeChildren(children))
             IN /\ children' = [children EXCEPT ![ch] = SpawnedCodex(p, t, isResume)]
                /\ procs' = [procs EXCEPT ![p].child = ch]
                /\ tasks' = [tasks EXCEPT ![t] =
                     [AfterSend(tasks[t]) EXCEPT !.child = ch, !.lastSent = 0, !.final = <<>>,
                        !.err = FALSE, !.isResume = isResume, !.isRetry = FALSE,
                        !.spawns = 1, !.discarded = NoSid,
                        !.lateSpawn = tasks[t].lateSpawn \/ tasks[t].abortPhase = "turn"]]

\* entry.process.sendMessage(content, sink): the first call and the retry
SendMessage(t) ==
  /\ tasks[t].pc \in {"send1", "send2"}
  /\ IF procs[tasks[t].proc].backend = "codex" THEN CodexSendMessage(t) ELSE ClaudeSendMessage(t)
  /\ UNCHANGED <<cmdVars, diskVars, config, now, sessions, order, dead, persisted, mutex>>

\* task.signal.aborted, read in the catch blocks (the HTTP handler has no
\* cancellation)
\* (variant: the signal is not looked at)
CancelledNever(tk) == FALSE

Cancelled(tk) == tk.kind = "ws" /\ tk.aborted

\* the catch block around the first sendMessage: return silently when the
\* signal is aborted, else await entry.process.restart()
Catch1(t) ==
  /\ tasks[t].pc = "caught1"
  /\ LET p == tasks[t].proc
         pr == procs[p]
     IN IF Cancelled(tasks[t])
        THEN /\ tasks' = [tasks EXCEPT ![t].pc = "done", ![t].listening = FALSE]
             /\ UNCHANGED <<procs, children>>
        ELSE IF pr.backend = "codex"
        THEN \* CodexProcess.restart
             /\ procs' = [procs EXCEPT ![p].stopped = FALSE]
             /\ tasks' = [tasks EXCEPT ![t].pc = "restarted"]
             /\ UNCHANGED children
        ELSE \* ClaudeProcess.restart: await this.stop()
             /\ procs' = StopProcs(procs, {p})
             /\ children' = StopChildren(children, procs, {p})
             /\ tasks' = [StopTasks(tasks, procs, {p}) EXCEPT
                            ![t].pc = IF pr.child = NoChild THEN "restarted" ELSE "restartwait",
                            ![t].waitChild = pr.child]
  /\ UNCHANGED <<cmdVars, diskVars, config, now, sessions, order, dead, persisted, mutex>>

\* restart() after stop() resolved: ClaudeProcess.start(); then the retry
Restarted(t) ==
  /\ tasks[t].pc = "restarted"
  /\ LET p == tasks[t].proc
         pr == procs[p]
     IN IF pr.backend = "codex" \/ pr.child # NoChild
        THEN /\ tasks' = [tasks EXCEPT ![t].pc = "send2", ![t].restarted = TRUE]
             /\ UNCHANGED <<procs, children>>
        ELSE /\ FreeChildren(children) # {}
             /\ \E sid \in NewSids :
                  LET ch == Min(FreeChildren(children))
                  IN /\ procs' = [procs EXCEPT ![p] = StartedRec(pr, ch)]
                     /\ children' = [children EXCEPT ![ch] = SpawnedClaude(p, sid)]
             /\ tasks' = [tasks EXCEPT ![t].pc = "send2", ![t].restarted = TRUE]
  /\ UNCHANGED <<cmdVars, diskVars, config, now, sessions, order, dead, persisted, mutex>>

\* the retry rejected: finally, then the outer catch reports the error
Catch2(t) ==
  /\ tasks[t].pc = "caught2"
  /\ tasks' = [tasks EXCEPT ![t].pc = "done", ![t].listening = FALSE,
                 ![t].errors = IF Cancelled(tasks[t])
                               THEN tasks[t].errors ELSE tasks[t].errors + 1,
                 \* sseError: the headers are sent; the Error delta, sseFinish
                 ![t].sse = IF tasks[t].kind = "http" THEN sseFinish(tasks[t].sse)
                            ELSE tasks[t].sse]
  /\ mutex' = IF tasks[t].kind = "http" THEN Release(mutex, TRUE) ELSE mutex
  /\ UNCHANGED <<cmdVars, diskVars, config, now, sessions, order, dead, persisted, procs, children>>

\* (observation only) the turn of task t is now the most recent successful
\* one of its conversation
Succeeded(ts, t) ==
  [u \in Tasks |->
     IF u = t THEN [ts[u] EXCEPT !.last = TRUE, !.lastId = ts[t].resSid # NoSid]
     ELSE IF ts[u].conv = ts[t].conv
     THEN [ts[u] EXCEPT !.last = FALSE, !.lastId = ts[u].lastId /\ ts[t].resSid = NoSid]
     ELSE ts[u]]

\* sendMessage resolved: finally, persistSession, sendComplete(finalText)
Resolved(t) ==
  /\ tasks[t].pc = "resolved"
  /\ LET entry == procs[tasks[t].proc]
     IN persisted' = IF tasks[t].resSid # NoSid
                     THEN persistSession(persisted, tasks[t].conv, tasks[t].resSid,
                                         entry.backend, entry.model, entry.cwd)
                     ELSE persisted
  /\ saveTimer' = IF tasks[t].resSid # NoSid THEN scheduleSave(saveTimer) ELSE saveTimer
  /\ tasks' = [Succeeded(tasks, t) EXCEPT
                 ![t].pc = "done", ![t].listening = FALSE,
                 ![t].completes = tasks[t].completes + 1,
                 \* clearInterval(keepAliveTimer) ... sseFinish
                 ![t].keepAlive = FALSE,
                 ![t].sse = IF tasks[t].kind = "http" THEN sseFinish(tasks[t].sse)
                            ELSE tasks[t].sse]
  /\ mutex' = IF tasks[t].kind = "http" THEN Release(mutex, FALSE) ELSE mutex
  /\ UNCHANGED <<cmdVars, disk, wall, fileOp, config, now, sessions, order, dead, procs, children>>

\* ClaudeProcess.abortTurn on registry state r: drop the turn promise (it
\* fails with the "aborted" error), clear the delta sink, keep the child
ClaudeAbortTurn(r, p) ==
  LET u == r.procs[p].turn
  IN [r EXCEPT !.procs = [r.procs EXCEPT ![p].turn = NoTask, ![p].sink = NoTask],
               !.tasks = IF u = NoTask THEN r.tasks
                         ELSE [r.tasks EXCEPT ![u] = Rejected(r.tasks[u])]]

\* CodexProcess.abortTurn on registry state r: SIGINT to the current child,
\* then reject through turnReject (which no code path ever sets)
CodexAbortTurn(r, p) ==
  LET ch == r.procs[p].child
      u == r.procs[p].turn
  IN [r EXCEPT !.children = IF ch # NoChild /\ ~r.children[ch].killed
                            THEN [r.children EXCEPT ![ch].killed = TRUE]
                            ELSE r.children,
               !.procs = [r.procs EXCEPT ![p].turn = NoTask],
               !.tasks = IF u = NoTask THEN r.tasks
                         ELSE [r.tasks EXCEPT ![u] = Rejected(r.tasks[u])]]

abortTurn(r, p) ==
  IF r.procs[p].backend = "codex" THEN CodexAbortTurn(r, p) ELSE ClaudeAbortTurn(r, p)

AbortPhaseOf(pcv) ==
  IF pcv \in Waiting THEN "turn" ELSE IF pcv = "restartwait" THEN "restart" ELSE "other"

\* task.signal aborts; the onAbort listener, if registered, calls abortTurn
Abort(t) ==
  /\ Quiescent
  /\ tasks[t].kind = "ws"
  /\ tasks[t].pc \notin {"idle", "done"}
  /\ ~tasks[t].aborted
  /\ LET marked == [Reg EXCEPT !.tasks =
                      [tasks EXCEPT ![t].aborted = TRUE,
                                    ![t].abortPhase = AbortPhaseOf(tasks[t].pc),
                                    ![t].abortCalled = tasks[t].listening,
                                    ![t].listening = FALSE]]
     IN SetReg(IF tasks[t].listening THEN abortTurn(marked, tasks[t].proc) ELSE marked)
  /\ UNCHANGED <<cmdVars, diskVars, config, now, persisted, mutex>>

\* ------------------------------------------- the persistent (Claude) child

ClaudeChild(ch) ==
  /\ children[ch].state = "running"
  /\ procs[children[ch].proc].backend = "claude"

\* the child answers a user message it has read (it was not killed)
Answering(ch) == ClaudeChild(ch) /\ ~children[ch].killed /\ children[ch].pending > 0

\* processLine: {type: system, subtype: init, session_id}
ClaudeInit(ch) ==
  /\ Quiescent
  /\ Answering(ch)
  /\ ~children[ch].started
  /\ procs' = [procs EXCEPT ![children[ch].proc].sessionId = children[ch].sid]
  /\ children' = [children EXCEPT ![ch].started = TRUE]
  /\ UNCHANGED <<cmdVars, diskVars, config, now, sessions, order, dead, persisted, tasks, mutex>>

\* processLine: stream_event / content_block_delta / text_delta
ClaudeDelta(ch, c) ==
  /\ Quiescent
  /\ Answering(ch)
  /\ LET p == children[ch].proc
         u == procs[p].sink
     IN /\ Len(procs[p].prose) < MaxText
        /\ u # NoTask => CanDeliver(u, <<c>>)
        /\ procs' = [procs EXCEPT ![p].prose = procs[p].prose \o <<c>>]
        /\ tasks' = IF u = NoTask THEN tasks ELSE Deliver(tasks, u, <<c>>)
  /\ UNCHANGED <<cmdVars, diskVars, config, now, sessions, order, dead, persisted, children, mutex>>

\* processLine: {type: result, session_id}: the turn is complete
ClaudeResult(ch) ==
  /\ Quiescent
  /\ Answering(ch)
  /\ LET p == children[ch].proc
         u == procs[p].turn
     IN /\ procs' = [procs EXCEPT ![p].sessionId = children[ch].sid,
                                  ![p].turn = NoTask,
                                  ![p].sink = IF u = NoTask THEN procs[p].sink ELSE NoTask]
        /\ tasks' = IF u = NoTask THEN tasks
                    ELSE [tasks EXCEPT ![u].pc = "resolved",
                                       ![u].resText = procs[p].prose,
                                       ![u].resSid = children[ch].sid]
  /\ children' = [children EXCEPT ![ch].pending = children[ch].pending - 1]
  /\ UNCHANGED <<cmdVars, diskVars, config, now, sessions, order, dead, persisted, mutex>>

\* tasks awaiting the close of child ch inside stop() go on
Released(ts, ch) ==
  [t \in Tasks |->
     IF ts[t].waitChild = ch /\ ts[t].pc \in {"restartwait", "destroywait"}
     THEN [ts[t] EXCEPT !.pc = IF ts[t].pc = "restartwait" THEN "restarted" ELSE "destroyed",
                        !.waitChild = NoChild]
     ELSE IF ts[t].pc = "stopwait" /\ ch \in ts[t].waitSet
     THEN [ts[t] EXCEPT !.pc = IF ts[t].waitSet = {ch} THEN "stopped" ELSE "stopwait",
                        !.waitSet = ts[t].waitSet \ {ch}]
     ELSE ts[t]]

\* child.on("close") registered by start(), and the one registered by stop()
ClaudeClose(ch) ==
  /\ Quiescent
  /\ ClaudeChild(ch)
  /\ LET p == children[ch].proc
         u == procs[p].turn
     IN /\ procs' = [procs EXCEPT ![p].alive = FALSE, ![p].child = NoChild, ![p].turn = NoTask]
        /\ tasks' = Released(IF u = NoTask THEN tasks
                             ELSE [tasks EXCEPT ![u] = Rejected(tasks[u])], ch)
  /\ children' = [children EXCEPT ![ch] = NoChildRec]
  /\ UNCHANGED <<cmdVars, diskVars, config, now, sessions, order, dead, persisted, mutex>>

\* the callback of stdin.write reports an error for the message of task t
StdinWriteError(t) ==
  /\ Quiescent
  /\ tasks[t].pc \in Waiting
  /\ LET p == tasks[t].proc
     IN /\ procs[p].backend = "claude"
        /\ procs[p].turn = t
        /\ procs[p].child # NoChild
        /\ children[procs[p].child].pending > 0
        /\ ~children[procs[p].child].killed
        /\ procs' = [procs EXCEPT ![p].turn = NoTask]
        /\ children' = [children EXCEPT ![procs[p].child].pending = @ - 1]
        /\ tasks' = [tasks EXCEPT ![t] = Rejected(tasks[t])]
  /\ UNCHANGED <<cmdVars, diskVars, config, now, sessions, order, dead, persisted, mutex>>

\* the 5 s timer of stop(): if (!child.killed) child.kill("SIGKILL"), then
\* resolve.  child.killed is what kill("SIGTERM") left behind.
ForceKilled(c) == [c EXCEPT !.sigkill = c.sigkill \/ ~c.killed]

StopTimer(t) ==
  /\ Quiescent
  /\ tasks[t].pc \in {"restartwait", "destroywait"}
  /\ tasks' = [tasks EXCEPT ![t].pc = IF tasks[t].pc = "restartwait" THEN "restarted"
                                      ELSE "destroyed",
                            ![t].waitChild = NoChild]
  /\ children' = [ch \in ChildIds |->
                    IF ch = tasks[t].waitChild THEN ForceKilled(children[ch]) ELSE children[ch]]
  /\ UNCHANGED <<cmdVars, diskVars, config, now, sessions, order, dead, persisted, procs, mutex>>

\* -------------------------------------------- the ephemeral (Codex) child

\* child ch is read by processEvents of the turn of its owner
CodexChild(ch) ==
  /\ children[ch].state = "running"
  /\ procs[children[ch].proc].backend = "codex"
  /\ tasks[children[ch].owner].child = ch
  /\ tasks[children[ch].owner].pc \in Waiting

Emitting(ch) == CodexChild(ch) /\ ~children[ch].killed

\* processEvents: thread.started.  A resumed thread announces its id, a
\* fresh one an id that no thread had before.
CodexThreadStarted(ch, sid) ==
  /\ Quiescent
  /\ Emitting(ch)
  /\ ~children[ch].started
  /\ sid \in NewSids
  /\ children[ch].resume => sid = procs[children[ch].proc].sessionId
  /\ ~children[ch].resume => sid \notin UsedSids
  /\ procs' = [procs EXCEPT ![children[ch].proc].sessionId = sid]
  /\ children' = [children EXCEPT ![ch].started = TRUE]
  /\ UNCHANGED <<cmdVars, diskVars, config, now, sessions, order, dead, persisted, tasks, mutex>>

\* event.item.text.slice(lastSentLength)
Slice(text, from) == SubSeq(text, from + 1, Len(text))

\* processEvents: item.started / item.updated of an agent_message whose text
\* grew by the character c
CodexItemUpdated(ch, c) ==
  /\ Quiescent
  /\ Emitting(ch)
  /\ Len(children[ch].item) < MaxText
  /\ LET t == children[ch].owner
         text == children[ch].item \o <<c>>
         delta == Slice(text, tasks[t].lastSent)
     IN /\ CanDeliver(t, delta)
        /\ children' = [children EXCEPT ![ch].item = text]
        /\ tasks' = IF delta = <<>> THEN tasks
                    ELSE [Deliver(tasks, t, delta) EXCEPT ![t].lastSent = Len(text)]
  /\ UNCHANGED <<cmdVars, diskVars, config, now, sessions, order, dead, persisted, procs, mutex>>

\* processEvents: item.completed of an agent_message (its text is the text
\* streamed so far plus ext)
CodexItemCompleted(ch, ext) ==
  /\ Quiescent
  /\ Emitting(ch)
  /\ LET t == children[ch].owner
         text == children[ch].item \o ext
         delta == Slice(text, tasks[t].lastSent)
     IN /\ text # <<>>
        /\ Len(text) <= MaxText
        /\ CanDeliver(t, delta)
        /\ children' = [children EXCEPT ![ch].item = <<>>]
        /\ tasks' = [(IF delta = <<>> THEN tasks ELSE Deliver(tasks, t, delta))
                       EXCEPT ![t].final = text, ![t].lastSent = 0]
  /\ UNCHANGED <<cmdVars, diskVars, config, now, sessions, order, dead, persisted, procs, mutex>>

\* processEvents: turn.failed / error
CodexTurnFailed(ch) ==
  /\ Quiescent
  /\ Emitting(ch)
  /\ ~tasks[children[ch].owner].err
  /\ tasks' = [tasks EXCEPT ![children[ch].owner].err = TRUE]
  /\ UNCHANGED <<cmdVars, diskVars, config, now, sessions, order, dead, persisted, procs, children, mutex>>

ExitCodes(ch) == IF children[ch].killed THEN {"1", "signal"} ELSE {"0", "1"}

\* stdout ends and the child exits with code: the rest of runTurn
CodexExit(ch, code) ==
  /\ Quiescent
  /\ CodexChild(ch)
  /\ code \in ExitCodes(ch)
  /\ LET t == children[ch].owner
         p == children[ch].proc
         tk == tasks[t]
         noOutput == tk.final = <<>>
     IN IF tk.isResume /\ noOutput /\ ~tk.isRetry
        THEN \* resume produced no output: this.threadId = null; runTurn(.., true)
             /\ procs' = [procs EXCEPT ![p].sessionId = NoSid, ![p].child = ch]
             /\ children' = [children EXCEPT ![ch] = SpawnedCodex(p, t, FALSE)]
             /\ tasks' = [tasks EXCEPT ![t].lastSent = 0, ![t].final = <<>>, ![t].err = FALSE,
                            ![t].isResume = FALSE, ![t].isRetry = TRUE,
                            ![t].spawns = tk.spawns + 1,
                            ![t].discarded = procs[p].sessionId,
                            ![t].lateSpawn = tk.lateSpawn \/ tk.abortPhase = "turn"]
        ELSE /\ procs' = [procs EXCEPT ![p].child = NoChild]
             /\ children' = [children EXCEPT ![ch] = NoChildRec]
             /\ IF tk.err \/ (code = "1" /\ noOutput)
                THEN tasks' = [tasks EXCEPT ![t] = Rejected(tk)]
                ELSE tasks' = [tasks EXCEPT ![t].pc = "resolved", ![t].child = NoChild,
                                 ![t].resText = IF noOutput THEN DoneText ELSE tk.final,
                                 ![t].resSid = procs[p].sessionId]
  /\ UNCHANGED <<cmdVars, diskVars, config, now, sessions, order, dead, persisted, mutex>>

\* ------------------------------------------------------- clock and sweeper

Tick ==
  /\ Quiescent
  /\ now < MaxTime
  /\ now' = now + 1
  /\ UNCHANGED <<cmdVars, diskVars, config, sessions, order, dead, persisted, procs, children, tasks, mutex>>

\* (variant: idle from the timeout on)
IdleAtTimeout(entry) == ~isBusy(entry) /\ now - entry.lastActivity >= config.idleTimeoutMs

Idle(entry) == ~isBusy(entry) /\ now - entry.lastActivity > config.idleTimeoutMs

\* the callback of startIdleSweep's setInterval
SweepTick ==
  /\ Quiescent
  /\ LET idle(k) == Idle(procs[sessions[k]])
         ks == SelectSeq(order, idle)
         S == {sessions[ks[i]] : i \in 1..Len(ks)}
     IN /\ dead' = DeadAfter(dead, sessions, procs, ks)
        /\ procs' = StopProcs(procs, S)
        /\ children' = StopChildren(children, procs, S)
        /\ tasks' = StopTasks(tasks, procs, S)
        /\ sessions' = [c \in Convs |-> IF sessions[c] \in S THEN NoProc ELSE sessions[c]]
        /\ order' = SelectSeq(order, LAMBDA k : ~idle(k))
  /\ UNCHANGED <<cmdVars, diskVars, config, now, persisted, mutex>>

\* -------------------------------------------------------------- persistence

MaxWall == 1                   \* ticks of the clock of the updatedAt stamps

ProtoKey == "__proto__"        \* the key of Object.prototype's accessor
KeyOrder == <<"c1", "c2", ProtoKey>>   \* the order the keys are iterated in
RecognisedBackends == {"claude", "codex"}   \* type Backend

\* the conversations that have a persisted entry
Present(ps) == {k \in DOMAIN ps : ps[k] # NoPersisted}

\* the empty persisted map over the keys K
NonePersisted(K) == [k \in K |-> NoPersisted]

\* a member "key": value of the JSON object of the file; isNull for null
Member(k, v) == [key |-> k, isNull |-> FALSE, value |-> v]

\* JSON.stringify of an object whose own properties, in order, are ks
ObjectFile(ps, ks) ==
  [kind |-> "object", members |-> [i \in 1..Len(ks) |-> Member(ks[i], ps[ks[i]])]]

\* data[key] = value on the plain object data = {}: an own property, except
\* for the key __proto__, which sets the prototype of data instead
OwnProperty(k) == k # ProtoKey

\* saveToDisk: what writeFileSync writes
saveToDisk(ps) ==
  ObjectFile(ps, SelectSeq(KeyOrder, LAMBDA k : k \in Present(ps) /\ OwnProperty(k)))

\* loadFromDisk: if (value.sessionId && value.backend)
Keep(v) == v.sessionId # NoSid /\ v.backend # ""

\* loadFromDisk: the loop over Object.entries(data); reading a field of a
\* null value throws, which ends the loop with the entries set so far
RECURSIVE LoadEntries(_, _)
LoadEntries(ms, acc) ==
  IF ms = <<>> THEN acc
  ELSE LET m == Head(ms)
       IN IF m.isNull THEN acc
          ELSE LoadEntries(Tail(ms), IF Keep(m.value) THEN [acc EXCEPT ![m.key] = m.value]
                                     ELSE acc)

\* loadFromDisk into the empty map over the keys K: a missing file returns
\* early; invalid JSON and the JSON text null throw inside the try
loadFromDisk(K, file) ==
  IF file.kind = "object" THEN LoadEntries(file.members, NonePersisted(K))
  ELSE NonePersisted(K)

\* the registry, the command handler and the requests are left alone
StoreOnly == UNCHANGED <<cmdVars, config, now, sessions, order, dead, procs, children, mutex>>

\* saveToDisk(); writeFileSync may fail, the error is caught and logged
SaveCall(written) ==
  /\ disk' = IF written THEN saveToDisk(persisted) ELSE disk
  /\ fileOp' = IF written THEN "save" ELSE fileOp

\* the callback of the timeout of scheduleSave
SaveTimerFire(written) ==
  /\ Quiescent
  /\ saveTimer > 0
  /\ saveTimer' = saveTimer - 1
  /\ SaveCall(written)
  /\ UNCHANGED <<persisted, wall, tasks>>
  /\ StoreOnly

\* the constructor of a new SessionStore on the same stateDir
LoadCall ==
  /\ Quiescent
  /\ persisted' = loadFromDisk(DOMAIN persisted, disk)
  /\ saveTimer' = 0
  /\ fileOp' = IF fileOp = "save" THEN "reload" ELSE "load"
  /\ UNCHANGED <<disk, wall, tasks>>
  /\ StoreOnly

\* clearPersistedSession(c), as /new and /model call it
ClearCall(c) ==
  /\ Quiescent
  /\ persisted[c] # NoPersisted
  /\ persisted' = clearPersistedSession(persisted, c)
  /\ saveTimer' = scheduleSave(saveTimer)
  /\ tasks' = Cleared(tasks, c)
  /\ UNCHANGED <<disk, wall, fileOp>>
  /\ StoreOnly

\* new Date() advances
WallTick ==
  /\ Quiescent
  /\ wall < MaxWall
  /\ wall' = wall + 1
  /\ UNCHANGED <<persisted, saveTimer, disk, fileOp, tasks>>
  /\ StoreOnly

\* a whole turn of a message of conversation c on its Codex session, up to
\* the resolution of sendMessage with the thread id sid
TurnEnds(t, c, sid) ==
  /\ Quiescent
  /\ tasks[t].pc \in {"idle", "done"}
  /\ sessions[c] # NoProc
  /\ procs[sessions[c]].backend = "codex"
  /\ tasks' = [tasks EXCEPT ![t] =
       [NoTaskRec EXCEPT !.kind = "ws", !.conv = c, !.proc = sessions[c], !.pc = "resolved",
                         !.sends = 1, !.resText = DoneText, !.resSid = sid]]
  /\ procs' = [procs EXCEPT ![sessions[c]].sessionId = sid]
  /\ UNCHANGED <<cmdVars, diskVars, config, now, sessions, order, dead, persisted, children, mutex>>

\* ---- SessionStore.stopAll, called by task t (the stop of the service)

\* the processes of the entries of the live map
LiveProcs(sess) == {sess[c] : c \in Convs} \ {NoProc}

\* the children whose close the stop() calls of stopAll wait for
StopAllAwaits(sess, ps) ==
  {ps[p].child : p \in {q \in LiveProcs(sess) : ps[q].backend = "claude"}} \ {NoChild}

\* stopAll up to its await: flush a pending save, (cancel the sweeper,)
\* call stop() of the process of every entry
StopAllCall(t) ==
  /\ Quiescent
  /\ tasks[t].pc = "idle"
  /\ IF saveTimer > 0
     THEN saveTimer' = 0 /\ SaveCall(TRUE)
     ELSE UNCHANGED <<saveTimer, disk, fileOp>>
  /\ LET S == LiveProcs(sessions)
         W == StopAllAwaits(sessions, procs)
     IN /\ procs' = StopProcs(procs, S)
        /\ children' = StopChildren(children, procs, S)
        /\ tasks' = [StopTasks(tasks, procs, S) EXCEPT
                       ![t] = [NoTaskRec EXCEPT !.kind = "stop", !.cmd = "stopall",
                                 !.pc = IF W = {} THEN "stopped" ELSE "stopwait",
                                 !.waitSet = W]]
  /\ UNCHANGED <<cmdVars, wall, config, now, sessions, order, dead, persisted, mutex>>

\* the 5 s timers of the stop() calls of stopAll (armed in the same tick)
StopAllTimer(t) ==
  /\ Quiescent
  /\ tasks[t].pc = "stopwait"
  /\ children' = [ch \in ChildIds |->
                    IF ch \in tasks[t].waitSet THEN ForceKilled(children[ch]) ELSE children[ch]]
  /\ tasks' = [tasks EXCEPT ![t].pc = "stopped", ![t].waitSet = {}]
  /\ UNCHANGED <<cmdVars, diskVars, config, now, sessions, order, dead, persisted, procs, mutex>>

\* Promise.allSettled(stops) settled: this.sessions.clear(); return
StopAllReturn(t) ==
  /\ tasks[t].pc = "stopped"
  /\ sessions' = [c \in Convs |-> NoProc]
  /\ order' = <<>>
  /\ tasks' = [tasks EXCEPT ![t].pc = "done"]
  /\ UNCHANGED <<cmdVars, diskVars, config, now, dead, persisted, procs, children, mutex>>

\* ------------------------------------------------------------------- specs

Init ==
  /\ config \in [defaultModel : Models, maxSessions : 1..MaxSessions,
                 idleTimeoutMs : {IdleTimeout}, codexModels : {codexModels}]
  /\ now = 0
  /\ sessions = [c \in Convs |-> NoProc]
  /\ order = <<>>
  /\ dead = [s \in Sids |-> NoDead]
  /\ persisted = [c \in Convs |-> NoPersisted]
  /\ procs = [p \in ProcIds |-> NoProcRec]
  /\ children = [ch \in ChildIds |-> NoChildRec]
  /\ tasks = [t \in Tasks |-> NoTaskRec]
  /\ mutex = <<>>
  /\ cwdOverrides = [c \in Convs |-> NoCwd]
  /\ modelOverrides = [c \in Convs |-> NoOverride]
  /\ saveTimer = 0
  /\ disk = NoFile
  /\ wall = 0
  /\ fileOp = "load"

\* the events of the children and of the timers of stop()
ChildEvents ==
  \/ \E ch \in ChildIds : ClaudeInit(ch)
  \/ \E ch \in ChildIds, c \in Chars : ClaudeDelta(ch, c)
  \/ \E ch \in ChildIds : ClaudeResult(ch)
  \/ \E ch \in ChildIds : ClaudeClose(ch)
  \/ \E t \in Tasks : StdinWriteError(t)
  \/ \E t \in Tasks : StopTimer(t)
  \/ \E ch \in ChildIds, sid \in Sids : CodexThreadStarted(ch, sid)
  \/ \E ch \in ChildIds, c \in Chars : CodexItemUpdated(ch, c)
  \/ \E ch \in ChildIds, ext \in {<<>>} \cup {<<c>> : c \in Chars} : CodexItemCompleted(ch, ext)
  \/ \E ch \in ChildIds : CodexTurnFailed(ch)
  \/ \E ch \in ChildIds, code \in {"0", "1", "signal"} : CodexExit(ch, code)

\* the steps of the handler of a request
Handler ==
  \/ \E t \in Tasks : WsLookup(t)
  \/ \E t \in Tasks : HttpLookup(t)
  \/ \E t \in Tasks : SendMessage(t)
  \/ \E t \in Tasks : Catch1(t)
  \/ \E t \in Tasks : Restarted(t)
  \/ \E t \in Tasks : Catch2(t)
  \/ \E t \in Tasks : Resolved(t)
  \/ \E t \in Tasks : Abort(t)

\* one request (a WS task of conversation c1, or an HTTP completion) and
\* everything that can happen while it is handled
Next ==
  \/ \E t \in Solo : TaskArrive(t, "c1")
  \/ \E t \in Solo, m \in Models : HttpArrive(t, m)
  \/ Handler
  \/ ChildEvents

Spec == Init /\ [][Next]_vars

\* the continuations of the handler of a request (promise reactions: they
\* run when they are queued)
Continuations ==
  \/ \E t \in Tasks : WsLookup(t)
  \/ \E t \in Tasks : HttpLookup(t)
  \/ \E t \in Tasks : SendMessage(t)
  \/ \E t \in Tasks : Catch1(t)
  \/ \E t \in Tasks : Restarted(t)
  \/ \E t \in Tasks : Catch2(t)
  \/ \E t \in Tasks : Resolved(t)

\* Spec where the queued continuations run and the 5 s timers of stop()
\* fire; what the children and the client do is not constrained
FairTurn ==
  /\ Spec
  /\ WF_vars(Continuations)
  /\ WF_vars(\E t \in Tasks : StopTimer(t))

\* the task that stands for the stop of the service
Stopper == {2}

\* stopAll was called
Stopping == \E t \in Stopper : tasks[t].pc # "idle"

\* one WS task of conversation c1 that arrives before the service stops,
\* the debounce timer, and one call of stopAll at any moment
NextStop ==
  \/ \E t \in Solo : ~Stopping /\ TaskArrive(t, "c1")
  \/ \E t \in Tasks : WsLookup(t)
  \/ \E t \in Tasks : SendMessage(t)
  \/ \E t \in Tasks : Catch1(t)
  \/ \E t \in Tasks : Restarted(t)
  \/ \E t \in Tasks : Catch2(t)
  \/ \E t \in Tasks : Resolved(t)
  \/ ChildEvents
  \/ SaveTimerFire(TRUE)
  \/ \E t \in Stopper : StopAllCall(t)
  \/ \E t \in Stopper : StopAllTimer(t)
  \/ \E t \in Stopper : StopAllReturn(t)

SpecStop == Init /\ [][NextStop]_vars

\* the WS tasks of one conversation that follow each other
Pair == {1, 2}

\* a store whose default model is a Claude model
InitClaude ==
  /\ Init
  /\ config.defaultModel = NoModel
  /\ config.maxSessions = MaxSessions

\* two WS tasks of conversation c1 on its Claude session, either of which
\* the client may cancel, and what the child does meanwhile (its deltas
\* all carry the same text, its init event is left out)
NextAbort ==
  \/ \E t \in Pair : TaskArrive(t, "c1")
  \/ \E t \in Tasks : WsLookup(t)
  \/ \E t \in Tasks : SendMessage(t)
  \/ \E t \in Tasks : Catch1(t)
  \/ \E t \in Tasks : Restarted(t)
  \/ \E t \in Tasks : Catch2(t)
  \/ \E t \in Tasks : Resolved(t)
  \/ \E t \in Tasks : Abort(t)
  \/ \E ch \in ChildIds : ClaudeDelta(ch, "a")
  \/ \E ch \in ChildIds : ClaudeResult(ch)
  \/ \E ch \in ChildIds : ClaudeClose(ch)
  \/ \E t \in Tasks : StopTimer(t)

SpecAbort == InitClaude /\ [][NextAbort]_vars

\* a store without sessions whose persisted map is ps, whose file is f,
\* with timer debounce timeouts armed
InitStore(ps, f, timer, op) ==
  /\ config \in [defaultModel : Models, maxSessions : 1..MaxSessions,
                 idleTimeoutMs : {IdleTimeout}, codexModels : {codexModels}]
  /\ now = 0
  /\ sessions = [c \in Convs |-> NoProc]
  /\ order = <<>>
  /\ dead = [s \in Sids |-> NoDead]
  /\ persisted = ps
  /\ procs = [p \in ProcIds |-> NoProcRec]
  /\ children = [ch \in ChildIds |-> NoChildRec]
  /\ tasks = [t \in Tasks |-> NoTaskRec]
  /\ mutex = <<>>
  /\ cwdOverrides = [c \in Convs |-> NoCwd]
  /\ modelOverrides = [c \in Convs |-> NoOverride]
  /\ saveTimer = timer
  /\ disk = f
  /\ wall = 0
  /\ fileOp = op

\* the persisted entry of a turn of a session of model and cwd
SavedEntry(sid, model, cwd) ==
  [sessionId |-> sid, backend |-> resolveBackendIn(codexModels, model), model |-> model,
   cwd |-> cwd, updatedAt |-> 0]

\* bridge-sessions.json as an earlier run left it: the entry of "c1"
SavedFiles ==
  {ObjectFile([c \in Convs |-> SavedEntry(Min(Sids), m, DefaultCwd)], <<"c1">>) : m \in Models}

\* the state after construction on a state directory with such a file
InitLoaded ==
  \E f \in SavedFiles : InitStore(loadFromDisk(Convs, f), f, 0, "load")

\* one request, as Spec, of a gateway that was restarted
SpecResume == InitLoaded /\ [][Next]_vars

\* the registry under WS tasks of several conversations, the clock and the
\* idle sweeper.  The tasks are not cancelled, and the text and init events
\* of the children are left out: those change neither the live map nor what
\* isBusy, isAlive and lastActivity say.
NextReg ==
  \/ \E t \in Tasks, c \in Convs : TaskArrive(t, c)
  \/ \E t \in Tasks : WsLookup(t)
  \/ \E t \in Tasks : SendMessage(t)
  \/ \E t \in Tasks : Catch1(t)
  \/ \E t \in Tasks : Restarted(t)
  \/ \E t \in Tasks : Catch2(t)
  \/ \E t \in Tasks : Resolved(t)
  \/ \E ch \in ChildIds : ClaudeResult(ch)
  \/ \E ch \in ChildIds : ClaudeClose(ch)
  \/ \E t \in Tasks : StopTimer(t)
  \/ \E ch \in ChildIds, code \in {"0", "1", "signal"} : CodexExit(ch, code)
  \/ Tick
  \/ SweepTick

SpecReg == Init /\ [][NextReg]_vars

NewArgs == {NoCwd, OtherCwd, BadPath}
ModelArgs == {CodexModel, ClaudeModel}

\* regular messages and slash commands of one conversation, on the WS
\* frontend.  The tasks are not cancelled, the clock stands still, and the
\* children stream no deltas.
NextCmd ==
  \/ \E t \in Tasks : TaskArrive(t, "c1")
  \/ \E t \in Tasks, path \in NewArgs : NewArrive(t, "c1", path)
  \/ \E t \in Tasks, m \in ModelArgs : ModelArrive(t, "c1", m)
  \/ \E t \in Tasks : CompactArrive(t, "c1")
  \/ \E t \in Tasks : SessionsArrive(t, "c1")
  \/ \E t \in Tasks, sid \in Sids : ResumeArrive(t, "c1", sid)
  \/ \E t \in Tasks : CmdDestroyed(t)
  \/ \E t \in Tasks : WsLookup(t)
  \/ \E t \in Tasks : SendMessage(t)
  \/ \E t \in Tasks : Catch1(t)
  \/ \E t \in Tasks : Restarted(t)
  \/ \E t \in Tasks : Catch2(t)
  \/ \E t \in Tasks : Resolved(t)
  \/ \E ch \in ChildIds : ClaudeInit(ch)
  \/ \E ch \in ChildIds : ClaudeResult(ch)
  \/ \E ch \in ChildIds : ClaudeClose(ch)
  \/ \E t \in Tasks : StopTimer(t)
  \/ \E ch \in ChildIds, sid \in Sids : CodexThreadStarted(ch, sid)
  \/ \E ch \in ChildIds, code \in {"0", "1", "signal"} : CodexExit(ch, code)

SpecCmd == Init /\ [][NextCmd]_vars

\* the conversations whose turns persist in SpecDisk
DiskConvs == {"c1", "c2"}

\* an idle Codex session (no child between turns)
CodexSession ==
  [NoProcRec EXCEPT !.backend = "codex", !.model = CodexModel, !.cwd = DefaultCwd]

\* a store on an empty state directory with an idle Codex session for each
\* conversation of DiskConvs
InitDisk ==
  /\ config = [defaultModel |-> CodexModel, maxSessions |-> MaxSessions,
               idleTimeoutMs |-> IdleTimeout, codexModels |-> codexModels]
  /\ now = 0
  /\ sessions = [c \in Convs |-> IF c = "c1" THEN 1 ELSE IF c = "c2" THEN 2 ELSE NoProc]
  /\ order = <<"c1", "c2">>
  /\ dead = [s \in Sids |-> NoDead]
  /\ persisted = NonePersisted(Convs)
  /\ procs = [p \in ProcIds |-> IF p \in {1, 2} THEN CodexSession ELSE NoProcRec]
  /\ children = [ch \in ChildIds |-> NoChildRec]
  /\ tasks = [t \in Tasks |-> NoTaskRec]
  /\ mutex = <<>>
  /\ cwdOverrides = [c \in Convs |-> NoCwd]
  /\ modelOverrides = [c \in Convs |-> NoOverride]
  /\ saveTimer = 0
  /\ disk = NoFile
  /\ wall = 0
  /\ fileOp = "load"

\* the requests whose turns persist in SpecDisk
DiskTasks == {1, 2}

\* the persistence store under successful turns, clears, the debounce timer
\* and the clock of the stamps, with writes that succeed
NextDisk ==
  \/ \E t \in DiskTasks, c \in DiskConvs, sid \in Sids : TurnEnds(t, c, sid)
  \/ \E t \in DiskTasks : Resolved(t)
  \/ \E c \in DiskConvs : ClearCall(c)
  \/ SaveTimerFire(TRUE)
  \/ WallTick

SpecDisk == InitDisk /\ [][NextDisk]_vars

\* the same where the continuation of a resolved sendMessage runs and the
\* timeout, which waits for the running continuations, fires when it is due
FairDisk ==
  /\ SpecDisk
  /\ SF_vars(SaveTimerFire(TRUE))
  /\ WF_vars(\E t \in DiskTasks : Resolved(t))

\* the keys of the maps and files of SpecFile
FileKeys == {"c1", ProtoKey}

\* the values of the members of a file: entries, well-formed or not
DiskValues ==
  [sessionId : {NoSid} \cup Sids, backend : RecognisedBackends \cup {"bogus", ""},
   model : {NoModel}, cwd : {DefaultCwd}, updatedAt : {0}]

\* the members a file can have: "key": entry, or "key": null
Members ==
  {Member(k, v) : k \in FileKeys, v \in DiskValues}
    \cup {[key |-> k, isNull |-> TRUE, value |-> NoPersisted] : k \in FileKeys}

\* bridge-sessions.json: missing, not JSON, the JSON text null, or an object
\* with at most one member for each key
Files ==
  {NoFile, [kind |-> "corrupt", members |-> <<>>], [kind |-> "null", members |-> <<>>]}
    \cup {[kind |-> "object", members |-> ms] :
            ms \in {<<>>} \cup {<<m>> : m \in Members}
                     \cup {p \in Members \X Members : p[1].key # p[2].key}}

\* the in-memory maps: each key without an entry or with one the loader or
\* persistSession can have put there
MemMaps == [FileKeys -> {NoPersisted} \cup {v \in DiskValues : Keep(v)}]

\* a store with any of these maps, a save pending, over any of these files
InitFile ==
  \E ps \in MemMaps, f \in Files : InitStore(ps, f, 1, "none")

\* saveToDisk and loadFromDisk applied to them
NextFile ==
  \/ \E written \in BOOLEAN : SaveTimerFire(written)
  \/ LoadCall

SpecFile == InitFile /\ [][NextFile]_vars

\* the completion requests of SpecHttp
HttpTasks == {1, 2}

\* body.model: absent or "claude-code-cli", empty, a Codex and a Claude model
HttpModels == {NoModel, EmptyModel, CodexModel, ClaudeModel}

\* the values of config.codexModels
CodexSets == SUBSET {EmptyModel, CodexModel}

\* a gateway without a default model under each of these configurations
InitHttp ==
  /\ config \in [defaultModel : {NoModel}, maxSessions : {MaxSessions},
                 idleTimeoutMs : {IdleTimeout}, codexModels : CodexSets]
  /\ now = 0
  /\ sessions = [c \in Convs |-> NoProc]
  /\ order = <<>>
  /\ dead = [s \in Sids |-> NoDead]
  /\ persisted = [c \in Convs |-> NoPersisted]
  /\ procs = [p \in ProcIds |-> NoProcRec]
  /\ children = [ch \in ChildIds |-> NoChildRec]
  /\ tasks = [t \in Tasks |-> NoTaskRec]
  /\ mutex = <<>>
  /\ cwdOverrides = [c \in Convs |-> NoCwd]
  /\ modelOverrides = [c \in Convs |-> NoOverride]
  /\ saveTimer = 0
  /\ disk = NoFile
  /\ wall = 0
  /\ fileOp = "load"

\* streaming completion requests, regular messages and /new, on the HTTP
\* frontend.  The children stream no deltas.
NextHttp ==
  \/ \E t \in HttpTasks, m \in HttpModels : HttpArrive(t, m)
  \/ \E t \in HttpTasks : HttpNewArrive(t, NoCwd)
  \/ \E t \in Tasks : CmdDestroyed(t)
  \/ \E t \in Tasks : HttpLookup(t)
  \/ \E t \in Tasks : HttpDestroyed(t)
  \/ \E t \in Tasks : SendMessage(t)
  \/ \E t \in Tasks : Catch1(t)
  \/ \E t \in Tasks : Restarted(t)
  \/ \E t \in Tasks : Catch2(t)
  \/ \E t \in Tasks : Resolved(t)
  \/ \E t \in Tasks : KeepAliveTick(t)
  \/ \E ch \in ChildIds : ClaudeResult(ch)
  \/ \E ch \in ChildIds : ClaudeClose(ch)
  \/ \E t \in Tasks : StopTimer(t)
  \/ \E ch \in ChildIds, code \in {"0", "1", "signal"} : CodexExit(ch, code)

SpecHttp == InitHttp /\ [][NextHttp]_vars

\* streaming completion requests, regular messages and /resume, on the HTTP
\* frontend.  The children stream no deltas.
NextHttpResume ==
  \/ \E t \in HttpTasks, m \in HttpModels : HttpArrive(t, m)
  \/ \E t \in HttpTasks, sid \in Sids : HttpResumeArrive(t, sid)
  \/ \E t \in Tasks : CmdDestroyed(t)
  \/ \E t \in Tasks : HttpLookup(t)
  \/ \E t \in Tasks : HttpDestroyed(t)
  \/ \E t \in Tasks : SendMessage(t)
  \/ \E t \in Tasks : Catch1(t)
  \/ \E t \in Tasks : Restarted(t)
  \/ \E t \in Tasks : Catch2(t)
  \/ \E t \in Tasks : Resolved(t)
  \/ \E ch \in ChildIds : ClaudeResult(ch)
  \/ \E ch \in ChildIds : ClaudeClose(ch)
  \/ \E t \in Tasks : StopTimer(t)
  \/ \E ch \in ChildIds, code \in {"0", "1", "signal"} : CodexExit(ch, code)

SpecHttpResume == InitHttp /\ [][NextHttpResume]_vars

\* the continuations of the handlers of the HTTP requests
HttpContinuations ==
  \/ \E t \in Tasks : CmdDestroyed(t)
  \/ \E t \in Tasks : HttpLookup(t)
  \/ \E t \in Tasks : HttpDestroyed(t)
  \/ \E t \in Tasks : SendMessage(t)
  \/ \E t \in Tasks : Catch1(t)
  \/ \E t \in Tasks : Restarted(t)
  \/ \E t \in Tasks : Catch2(t)
  \/ \E t \in Tasks : Resolved(t)

\* SpecHttp where the queued continuations run
FairHttp == SpecHttp /\ WF_vars(HttpContinuations)

\* ------------------------------------------------------------- properties

WsTasks == {t \in Tasks : tasks[t].kind = "ws"}

IsPrefix(a, b) == Len(a) <= Len(b) /\ SubSeq(b, 1, Len(a)) = a

\* the process of the session of task t
ProcOf(t) == procs[tasks[t].proc]

\* C1: two sendMessage calls are never active at the same time on one
\* backend process, whichever the backend: a call made while a turn is in
\* flight is rejected.
C1_AtMostOneInFlight ==
  \A t, u \in Tasks :
    (t # u /\ tasks[t].pc \in Waiting /\ tasks[u].pc \in Waiting)
      => tasks[t].proc # tasks[u].proc

\* C2: once the signal of a WS task has tripped while its sendMessage was in
\* flight, the handler calls sendMessage no more and never calls sendError.
C2_CancellationSilence ==
  [][\A t \in Tasks :
       (tasks[t].kind = "ws" /\ tasks[t].abortPhase = "turn")
         => /\ tasks'[t].sends = tasks[t].sends
            /\ tasks'[t].errors = 0]_vars

\* a WS task cancelled during its first sendMessage has returned: the call
\* was rejected, and there was neither a retry nor an error
C2_Witness ==
  \E t \in Tasks :
    /\ tasks[t].kind = "ws" /\ tasks[t].abortPhase = "turn" /\ tasks[t].pc = "done"
    /\ tasks[t].fails = 1 /\ tasks[t].sends = 1 /\ tasks[t].errors = 0

\* C3: after the signal of a WS task tripped mid-turn, abortTurn has been
\* called, no chunk and no completion is sent any more, no child is spawned
\* for the turn, and when the handler has returned the process of the
\* session is alive and not busy.
C3_AbortedTurnIsQuiet ==
  \A t \in Tasks :
    (tasks[t].kind = "ws" /\ tasks[t].abortPhase = "turn")
      => /\ tasks[t].abortCalled
         /\ ~tasks[t].lateChunk
         /\ tasks[t].completes = 0
         /\ ~tasks[t].lateSpawn
         /\ tasks[t].pc = "done" => (isAlive(ProcOf(t)) /\ ~isBusy(ProcOf(t)))

\* C4: while the token of a request has not tripped, sendMessage is called at
\* most twice, the second call is made only after the first was rejected and
\* restart() returned (the process is alive then), and a request whose second
\* call was rejected ends with exactly one error and no completion.
C4_RetryOnce ==
  \A t \in Tasks :
    ~tasks[t].aborted
      => /\ tasks[t].sends <= 2
         /\ tasks[t].sends = 2 => (tasks[t].fails >= 1 /\ tasks[t].restarted)
         /\ tasks[t].pc = "send2" => isAlive(ProcOf(t))
         /\ tasks[t].fails <= 2
         /\ tasks[t].errors = (IF tasks[t].pc = "done" /\ tasks[t].fails = 2 THEN 1 ELSE 0)
         /\ tasks[t].fails = 2 => tasks[t].completes = 0

\* a request that was never cancelled failed twice and reported one error
C4_Witness ==
  \E t \in Tasks :
    /\ ~tasks[t].aborted /\ tasks[t].pc = "done"
    /\ tasks[t].sends = 2 /\ tasks[t].fails = 2 /\ tasks[t].restarted
    /\ tasks[t].errors = 1

\* C5: the WS handler does not call sendMessage for the retry when the
\* signal of the task is already aborted.
C5_NoRetryWhenCancelled ==
  [][\A t \in Tasks :
       (tasks[t].kind = "ws" /\ tasks[t].aborted /\ tasks[t].sends = 1)
         => tasks'[t].sends = 1]_vars

\* C6: a WS task gets at most one terminal callback, sendComplete only when
\* its last sendMessage resolved, and none when its token tripped during the
\* turn.
C6_OneTerminalCallback ==
  \A t \in WsTasks :
    /\ tasks[t].completes + tasks[t].errors <= 1
    /\ tasks[t].completes = 1 => tasks[t].fails < tasks[t].sends
    /\ tasks[t].abortPhase = "turn" => (tasks[t].completes = 0 /\ tasks[t].errors = 0)

\* C7: the deltas delivered for a request that completed, concatenated in
\* the order of delivery, are a prefix of the final text.
C7_DeltasPrefixOfFinal ==
  \A t \in Tasks :
    tasks[t].completes = 1 => IsPrefix(tasks[t].delivered, tasks[t].resText)

\* ---- the registry

Live == {c \in Convs : sessions[c] # NoProc}
Entry(c) == procs[sessions[c]]
NonBusy == {c \in Live : ~isBusy(Entry(c))}

\* c is a session that is not busy and no other such session is older
OldestNonBusy(c) ==
  c \in NonBusy /\ \A d \in NonBusy : Entry(c).lastActivity <= Entry(d).lastActivity

\* the handler of task t calls createSession in this step
Creates(t) ==
  /\ WsLookup(t)
  /\ ~(tasks[t].conv \in Live /\ isAlive(Entry(tasks[t].conv)))

\* the sessions of other conversations that this step takes out of the map
Dropped(t) == {c \in Live \ {tasks[t].conv} : sessions'[c] = NoProc}

BeginsDestroy(t, c) ==
  /\ tasks[t].pc = "idle"
  /\ tasks'[t].pc \in {"destroywait", "destroyed"}
  /\ tasks'[t].conv = c
  /\ tasks'[t].entry # NoProc

\* C11: when a session that has a session id leaves the live map (through
\* destroySession, the eviction of createSession or the idle sweep), the
\* dead-session map has afterwards a record under that id with the cwd, the
\* model and the backend of the session; destroySession records the id at
\* its start, before stop() resets it; and no record is ever removed.
C11_DeadRecordOnLeave ==
  [][/\ \A c \in Live :
          LET sid == getSessionId(Entry(c))
          IN (sid # NoSid /\ (sessions'[c] = NoProc \/ \E t \in Tasks : BeginsDestroy(t, c)))
               => dead'[sid] = DeadRec(Entry(c))
     /\ \A s \in Sids : dead[s] # NoDead => dead'[s] # NoDead]_vars

\* rows is a row for every session of the conversations L, followed by a
\* row for every dead record whose id is not the id of a session of L, and
\* no id is in a row of both kinds
Listing(rows, L) ==
  LET n == Cardinality(L)
      liveIds == {getSessionId(Entry(c)) : c \in L}
      deadIds == {s \in Sids : dead[s] # NoDead /\ s \notin liveIds}
  IN /\ Len(rows) = n + Cardinality(deadIds)
     /\ {rows[i].conversationId : i \in 1..n} = L
     /\ \A i \in 1..n :
          LET entry == Entry(rows[i].conversationId)
          IN /\ rows[i].sessionId = getSessionId(entry)
             /\ rows[i].alive = isAlive(entry)
             /\ rows[i].backend = entry.backend
             /\ rows[i].cwd = entry.cwd
             /\ rows[i].model = entry.model
     /\ {rows[i].sessionId : i \in (n + 1)..Len(rows)} = deadIds
     /\ \A i \in (n + 1)..Len(rows) :
          /\ rows[i].conversationId = ""
          /\ ~rows[i].alive
          /\ DeadRec(rows[i]) = dead[rows[i].sessionId]
     /\ \A i \in 1..n, j \in (n + 1)..Len(rows) : rows[i].sessionId # rows[j].sessionId

\* task t is a /sessions command handled in this step
Lists(t) == tasks[t].pc = "idle" /\ tasks'[t].cmd = "sessions"

LiveWithId == {c \in Live : getSessionId(Entry(c)) # NoSid}

TurnInFlight(c) ==
  \E t \in Tasks : tasks[t].conv = c /\ tasks[t].cmd = "msg" /\ tasks[t].pc \notin {"idle", "done"}

\* the session id, backend, model and cwd of a persisted entry
Meta(e) == [sessionId |-> e.sessionId, backend |-> e.backend, model |-> e.model, cwd |-> e.cwd]

\* the session id the turn of task t returned, and the backend, model and
\* cwd of the session it ran on
TurnMeta(t) ==
  [sessionId |-> tasks[t].resSid, backend |-> ProcOf(t).backend,
   model |-> ProcOf(t).model, cwd |-> ProcOf(t).cwd]

\* C13 (as stated): whenever no turn of a conversation is in flight, its
\* persisted entry is absent or carries the session id, backend, model and
\* cwd of the most recent successfully completed turn of the conversation.
C13_MostRecentTurn ==
  \A c \in Convs :
    ~TurnInFlight(c) =>
      \/ persisted[c] = NoPersisted
      \/ \E t \in Tasks : /\ tasks[t].conv = c /\ tasks[t].last
                          /\ Meta(persisted[c]) = TurnMeta(t)

\* C13 (amended): whenever no turn of a conversation is in flight, its
\* persisted entry carries the session id, backend, model and cwd of the
\* most recent successfully completed turn of the conversation that
\* returned a non-empty session id, and it is absent when there was no
\* such turn since the entry was last cleared.
C13_MostRecentTurnWithId ==
  \A c \in Convs :
    ~TurnInFlight(c) =>
      IF \E t \in Tasks : tasks[t].conv = c /\ tasks[t].lastId
      THEN \A t \in Tasks : (tasks[t].conv = c /\ tasks[t].lastId)
                              => Meta(persisted[c]) = TurnMeta(t)
      ELSE persisted[c] = NoPersisted

\* a turn that returned no session id completed after one that returned one
C13_Witness ==
  \E t, u \in Tasks :
    /\ t # u /\ tasks[t].conv = tasks[u].conv /\ ~TurnInFlight(tasks[t].conv)
    /\ tasks[t].last /\ ~tasks[t].lastId /\ tasks[u].lastId
    /\ persisted[tasks[t].conv] # NoPersisted

\* process p is constructed in this step
Constructed(p) == procs[p].backend = "none" /\ procs'[p].backend # "none"

\* the resumeSessionId option of the createSession call of this step for
\* conversation c: the one a command kept across its destroySession
ExplicitResumeId(c) ==
  IF \E t \in Tasks : tasks[t].pc = "destroyed" /\ tasks'[t].pc # "destroyed" /\ tasks[t].conv = c
  THEN tasks[CHOOSE t \in Tasks : tasks[t].pc = "destroyed" /\ tasks'[t].pc # "destroyed"
                                   /\ tasks[t].conv = c].rSid
  ELSE NoSid

\* C14: the process createSession constructs has the backend
\* resolveBackend(model); called without an explicit resume id it is
\* started with the persisted session id of the conversation if and only if
\* a persisted entry exists and its backend is that backend, and with no
\* resume id otherwise; an explicit resume id is the one it is started with.
C14_AutoResume ==
  [][\A c \in Convs :
       (sessions'[c] # NoProc /\ Constructed(sessions'[c])) =>
         LET new == procs'[sessions'[c]]
             explicit == ExplicitResumeId(c)
         IN /\ new.backend = resolveBackend(new.model)
            /\ explicit # NoSid => new.resumeId = explicit
            /\ explicit = NoSid =>
                 new.resumeId = IF persisted[c] # NoPersisted /\ persisted[c].backend = new.backend
                                THEN persisted[c].sessionId
                                ELSE NoSid]_vars

\* a session resumed by /resume with an id other than the persisted one of
\* its conversation, whose backend is the backend of the session, the
\* persisted entry being of a turn on an earlier session
C14_Witness ==
  \E t \in Tasks :
    LET c == tasks[t].conv
    IN /\ tasks[t].cmd = "resume" /\ tasks[t].pc = "done"
       /\ c \in Live
       /\ persisted[c] # NoPersisted
       /\ persisted[c].backend = Entry(c).backend
       /\ Entry(c).resumeId \notin {NoSid, persisted[c].sessionId}
       /\ \A u \in Tasks : tasks[u].cmd = "msg" =>
            tasks[u].pc \in {"idle", "done"} /\ tasks[u].proc # sessions[c]

\* the resume-retry of the sendMessage of task t is taken in this step
Retries(t) == tasks[t].spawns >= 1 /\ tasks'[t].spawns = tasks[t].spawns + 1

\* the child of the turn of task t has produced agent text: a completed
\* agent message, or the streamed part of one
AgentText(t) == tasks[t].final # <<>> \/ children[tasks[t].child].item # <<>>

\* the sendMessage of task t, which took the resume-retry, resolves
RetryResolves(t) ==
  tasks[t].isRetry /\ tasks[t].pc \in Waiting /\ tasks'[t].pc = "resolved"

\* C15 (as stated): a sendMessage of a Codex process spawns at most two
\* children; the second is spawned only if the first was a resume
\* invocation that produced no agent text; it is a fresh invocation,
\* started with the stored thread id discarded; the session id returned and
\* persisted is the thread id the second child announced, never the
\* discarded one.
C15_ResumeRetry ==
  /\ [](\A t \in Tasks : tasks[t].spawns <= 2)
  /\ [][\A t \in Tasks :
          /\ Retries(t) =>
               /\ children[tasks[t].child].resume
               /\ ~AgentText(t)
               /\ ~children'[tasks'[t].child].resume
               /\ procs'[tasks[t].proc].sessionId = NoSid
               /\ tasks'[t].discarded # NoSid
          /\ RetryResolves(t) =>
               /\ tasks'[t].resSid = procs[tasks[t].proc].sessionId
               /\ tasks'[t].resSid # tasks[t].discarded
          /\ (tasks[t].isRetry /\ tasks[t].pc = "resolved" /\ tasks'[t].pc = "done"
                /\ tasks[t].resSid # NoSid) =>
               persisted'[tasks[t].conv].sessionId = tasks[t].resSid]_vars

\* the file that holds every entry of the map ps
WholeFile(ps) == ObjectFile(ps, SelectSeq(KeyOrder, LAMBDA k : k \in Present(ps)))

\* C16: at most one debounce timeout is armed at any time; persist and
\* clear calls made while it is armed arm no other and write nothing; the
\* file is written only when the timeout fires, once, and its content is
\* then the whole in-memory map of that moment.
C16_OneTimerOneWrite ==
  /\ [](saveTimer <= 1)
  /\ [][/\ disk' # disk => saveTimer = 1 /\ saveTimer' = 0
        /\ saveTimer' < saveTimer => disk' = WholeFile(persisted) /\ persisted' = persisted
        /\ (saveTimer = 1 /\ persisted' # persisted) => saveTimer' = 1 /\ disk' = disk]_vars

\* a write of two entries made by one timeout
C16_Witness ==
  /\ saveTimer = 0
  /\ fileOp = "save"
  /\ Cardinality(Present(persisted)) = 2
  /\ disk = WholeFile(persisted)
  /\ \A c \in DiskConvs : persisted[c].updatedAt = wall

\* the content of the file is the in-memory map (no file for the empty map
\* of a store that never wrote)
OnDisk == disk = WholeFile(persisted) \/ (disk = NoFile /\ Present(persisted) = {})

\* C17: whenever a change of the in-memory map made by persist or clear is
\* not on disk, the debounce timeout is armed; and, writes succeeding, the
\* content of the file eventually equals the in-memory map.
C17_DirtyIsArmed ==
  /\ [](~OnDisk => saveTimer > 0)
  /\ (~OnDisk ~> OnDisk)

\* a change waiting for its write, after an earlier write
C17_Witness ==
  /\ ~OnDisk
  /\ saveTimer = 1
  /\ fileOp = "save"
  /\ disk # WholeFile(NonePersisted(Convs))

\* persist is called in this step, for the turn of task t, with the entry
\* of the latest persist of the conversation
RepeatedPersist(t) ==
  /\ tasks[t].pc = "resolved" /\ tasks'[t].pc = "done"
  /\ tasks[t].resSid # NoSid
  /\ \E u \in Tasks \ {t} :
       /\ tasks[u].conv = tasks[t].conv /\ tasks[u].lastId
       /\ TurnMeta(u) = TurnMeta(t)

\* C18 (as stated): persist called again with the entry of the conversation
\* (same sessionId, backend, model, cwd) leaves the on-disk map, once the
\* debounce has fired, as one call leaves it.
C18_PersistIdempotent ==
  [][\A t \in Tasks : RepeatedPersist(t) => WholeFile(persisted') = WholeFile(persisted)]_vars

\* the sessionId, backend, model and cwd under each key of a file
Unstamped(f) == [i \in 1..Len(f.members) |->
                   [key |-> f.members[i].key, entry |-> Meta(f.members[i].value)]]

\* C18 (amended): persist called again with the entry of the conversation
\* leaves the on-disk map, once the debounce has fired, with the keys and,
\* under each key, the sessionId, backend, model and cwd that one call
\* leaves; the updatedAt stamp is the one of the last call.
C18_PersistIdempotentButStamp ==
  [][\A t \in Tasks : RepeatedPersist(t) =>
        Unstamped(WholeFile(persisted')) = Unstamped(WholeFile(persisted))]_vars

\* a repeated persist with a later stamp, written
C18_Witness ==
  \E t, u \in DiskTasks :
    /\ t # u /\ tasks[t].pc = "done" /\ tasks[u].pc = "done"
    /\ tasks[t].conv = tasks[u].conv /\ TurnMeta(t) = TurnMeta(u)
    /\ tasks[t].lastId
    /\ persisted[tasks[t].conv].updatedAt > 0
    /\ disk = WholeFile(persisted)
    /\ saveTimer = 0

\* every entry of the map ps is well-formed
WellFormed(ps) ==
  \A k \in Present(ps) : ps[k].sessionId # NoSid /\ ps[k].backend \in RecognisedBackends

\* the same keys and, per key, the same sessionId, backend, model and cwd
SameMap(a, b) ==
  /\ Present(a) = Present(b)
  /\ \A k \in Present(a) : Meta(a[k]) = Meta(b[k])

\* C19: a map of well-formed entries written by saveToDisk and read back by
\* loadFromDisk into an empty store is the same map: the same keys and, per
\* key, the same sessionId, backend, model and cwd.
C19_RoundTrip ==
  [][(fileOp = "save" /\ fileOp' = "reload" /\ WellFormed(persisted))
       => SameMap(persisted', persisted)]_vars

\* a store is constructed in this step
Loads == fileOp' \in {"load", "reload"} /\ fileOp' # fileOp

\* the entries of the file f with a non-empty sessionId and a recognised
\* backend, by key
Validated(K, f) ==
  [k \in K |->
     IF \E i \in 1..Len(f.members) :
          /\ f.members[i].key = k
          /\ f.members[i].value.sessionId # NoSid
          /\ f.members[i].value.backend \in RecognisedBackends
     THEN f.members[CHOOSE i \in 1..Len(f.members) : f.members[i].key = k].value
     ELSE NoPersisted]

\* C20: loadFromDisk returns normally; from a missing file or one that is
\* not JSON the persisted map is empty, and from a file that is an object
\* of entries the map holds exactly the entries with a non-empty sessionId
\* and a recognised backend.
C20_LoadValidates ==
  [][Loads =>
       /\ disk.kind \in {"missing", "corrupt"} => Present(persisted') = {}
       /\ (disk.kind = "object" /\ \A i \in 1..Len(disk.members) : ~disk.members[i].isNull)
            => persisted' = Validated(DOMAIN persisted, disk)]_vars

\* ---- backend routing

\* the processes constructed so far
Constructions == {p \in ProcIds : procs[p].backend # "none"}

\* C21 (as stated): resolveBackend(m) is the ephemeral (Codex) backend if
\* and only if m is a member of config.codexModels, and the persistent
\* (Claude) backend for every other model: every session has the Codex
\* backend exactly when its model is a member.
C21_BackendIffMember ==
  \A p \in Constructions :
    procs[p].backend = (IF procs[p].model \in config.codexModels THEN "codex" ELSE "claude")

\* C21 (amended): resolveBackend(m) is the Codex backend if and only if m is
\* a non-empty model name that is a member of config.codexModels; for an
\* absent or empty model it is the Claude backend, also when the empty
\* string is a member.
C21_BackendIffNonEmptyMember ==
  \A p \in Constructions :
    procs[p].backend =
      (IF procs[p].model \notin {NoModel, EmptyModel} /\ procs[p].model \in config.codexModels
       THEN "codex" ELSE "claude")

\* the empty string is configured as a Codex model; a session was created
\* for the empty model, and one for a Codex model that is not empty
C21_Witness ==
  /\ EmptyModel \in config.codexModels
  /\ \E p \in Constructions : procs[p].model = EmptyModel /\ procs[p].backend = "claude"
  /\ \E p \in Constructions : procs[p].model = CodexModel /\ procs[p].backend = "codex"

\* the handler of task t calls sendMessage in this step
Sends(t) == tasks'[t].sends = tasks[t].sends + 1

\* the effective model of the conversation of the regular message t
EffectiveModelOf(t) ==
  IF tasks[t].kind = "http" THEN effectiveModel(t)
  ELSE getModelForConversation(tasks[t].conv)

\* C22: on both frontends a regular message is only ever sent to a session
\* whose backend is resolveBackend(effective model of the conversation).
C22_SentToResolvedBackend ==
  [][\A t \in Tasks :
       Sends(t) => ProcOf(t).backend = resolveBackend(EffectiveModelOf(t))]_vars

\* ---- /new and /resume

\* task t is a /new that cleared, destroyed and replies in this step
NewReplies(t) ==
  tasks[t].cmd = "new" /\ tasks[t].pc = "destroyed" /\ tasks'[t].pc = "done"

\* task t is a /new that has replied that a new session was opened
NewDone(t) == tasks[t].cmd = "new" /\ tasks[t].pc = "done" /\ tasks[t].resText = ReplyText

\* task u is a regular message that arrived after the /new t
MessageAfter(u, t) == u > t /\ tasks[u].conv = tasks[t].conv /\ tasks[u].cmd = "msg"

\* C23: in whatever state /new is issued, once it has replied there is no
\* live session for the conversation; the persisted entry is absent and
\* stays absent until a turn of a session created after the /new succeeds;
\* and the next regular message starts a session without a resume id.
C23_NewStartsClean ==
  /\ [][\A t \in Tasks : NewReplies(t) =>
          /\ sessions'[tasks[t].conv] = NoProc
          /\ persisted'[tasks[t].conv] = NoPersisted]_vars
  /\ [](\A t \in Tasks :
          (NewDone(t) /\ persisted[tasks[t].conv] # NoPersisted
             /\ ~\E v \in Tasks : v > t /\ tasks[v].cmd # "msg" /\ tasks[v].pc # "idle")
            => \E u \in Tasks : MessageAfter(u, t) /\ tasks[u].completes = 1)
  /\ [][\A t, u \in Tasks :
          (NewDone(t) /\ u = t + 1 /\ MessageAfter(u, t)
             /\ tasks[u].pc = "lookup" /\ tasks'[u].pc = "send1")
            => /\ Constructed(tasks'[u].proc)
               /\ procs'[tasks'[u].proc].resumeId = NoSid]_vars

\* the session id s is the id of a live session or of a dead record
KnownSid(s) == dead[s] # NoDead \/ \E c \in Live : getSessionId(Entry(c)) = s

\* task t is a /resume with an argument, handled up to its first await or
\* its reply in this step
ResumeCalled(t) == tasks[t].pc = "idle" /\ tasks'[t].cmd = "resume"

\* C24: /resume with an argument that is the id of no live or dead session
\* replies that the resume failed and leaves the session of the
\* conversation and the live map as they are; only a known session id
\* leads to destroy-and-recreate, the new session resuming that id.
C24_ResumeOnlyKnown ==
  [][\A t \in Tasks :
       /\ (ResumeCalled(t) /\ ~KnownSid(tasks'[t].rSid)) =>
            /\ tasks'[t].pc = "done"
            /\ sessions' = sessions /\ order' = order /\ procs' = procs
       /\ (tasks[t].cmd = "resume" /\ tasks[t].pc = "destroyed" /\ tasks'[t].pc = "done") =>
            /\ Constructed(sessions'[tasks[t].conv])
            /\ procs'[sessions'[tasks[t].conv]].resumeId = tasks[t].rSid]_vars

\* ---- concurrency of the registry and of the HTTP frontend

\* task t is inside destroySession, between its lookup of an entry and the
\* removal of the key from the live map
InDestroy(t) == tasks[t].pc \in {"destroywait", "destroyed"} /\ tasks[t].entry # NoProc

\* C25: no createSession, eviction or sweep changes the live map between
\* the lookup of destroySession and its removal of the key, and what
\* destroySession removes is the entry whose process it stopped.
C25_DestroyIsAtomic ==
  [][\A t \in Tasks :
       InDestroy(t) =>
         IF InDestroy(t)'
         THEN sessions' = sessions
         ELSE sessions[tasks[t].conv] = tasks[t].entry]_vars

HttpRequests == {t \in Tasks : tasks[t].kind = "http"}

\* the HTTP request t is between its session lookup and the completion of
\* its response
Serving(t) ==
  tasks[t].kind = "http" /\ tasks[t].cmd = "msg" /\ tasks[t].pc \notin {"idle", "queued", "done"}

\* C26: while an HTTP request is between session lookup and response
\* completion, no other HTTP request, a slash command included, takes a
\* step of its handler other than queueing on the mutex; and the queued
\* requests are served in the order of their arrival.
C26_HttpSerialized ==
  [][\A t \in Tasks :
       /\ Serving(t) =>
            \A u \in Tasks \ {t} :
              (tasks'[u].kind = "http" /\ tasks'[u].pc # tasks[u].pc)
                => tasks[u].pc = "idle" /\ tasks'[u].pc = "queued"
       /\ (tasks[t].pc = "queued" /\ tasks'[t].pc # "queued") =>
            \A u \in HttpRequests : tasks[u].pc = "queued" => t <= u]_vars

\* C27: the response of a streaming HTTP request carries, on the success
\* path and on the error path, exactly one finish chunk followed by exactly
\* one [DONE] frame and the end of the response, written when the handler
\* is done; and no frame is written after the response has ended.
C27_OneFinishThenSilence ==
  \A t \in HttpRequests :
    /\ tasks[t].sse = IF tasks[t].pc = "done" THEN <<"finish", "done", "end">> ELSE <<>>
    /\ ~tasks[t].lateFrame

\* ---- settling of turns

\* a sendMessage of task t on a Claude process is pending
ClaudeTurn(t) == tasks[t].pc \in Waiting /\ ProcOf(t).backend = "claude"

\* C28: every sendMessage on a Claude process eventually settles, also
\* when no result event, no close of the child and no abort occurs (the
\* turn timeout then resolves it with the prose accumulated so far), and
\* the process is not busy afterwards.
C28_TurnSettles ==
  /\ \A t \in Tasks : ClaudeTurn(t) ~> ~ClaudeTurn(t)
  /\ [][\A t \in Tasks :
          (ClaudeTurn(t) /\ tasks'[t].pc = "resolved") => ~isBusy(procs'[tasks[t].proc])]_vars

\* ---- stop() of the persistent process

\* task t awaits a stop() that waits for the close of a child
InStop(t) == tasks[t].pc \in {"restartwait", "destroywait"}

\* C29: stop() of a Claude process rejects the turn in flight, does nothing
\* when the process has no child, resolves in bounded time, and when the
\* child has not closed 5 seconds after SIGTERM the child has been sent
\* SIGKILL when stop() resolves.
C29_StopKillsAfterTimeout ==
  /\ \A t \in Tasks : InStop(t) ~> ~InStop(t)
  /\ [][\A p \in ProcIds :
          (/\ procs[p].backend = "claude"
           /\ procs[p].child # NoChild
           /\ procs[p].turn # NoTask
           /\ procs'[p].child = NoChild
           /\ children'[procs[p].child].state = "running")
            => tasks'[procs[p].turn].pc \in {"caught1", "caught2"}]_vars
  /\ [][\A t \in Tasks :
          (/\ tasks[t].pc = "caught1"
           /\ tasks'[t].pc = "restarted"
           /\ ProcOf(t).backend = "claude")
            => procs' = procs /\ children' = children]_vars
  /\ [][\A t \in Tasks :
          (/\ InStop(t)
           /\ tasks'[t].pc \notin {"restartwait", "destroywait"}
           /\ children'[tasks[t].waitChild].state = "running")
            => children'[tasks[t].waitChild].sigkill]_vars

\* ---- the end of an ephemeral turn

\* a sendMessage of task t on a Codex process is pending
CodexTurn(t) == tasks[t].pc \in Waiting /\ ProcOf(t).backend = "codex"

\* C30: a sendMessage on a Codex process whose child produced agent text
\* resolves with that text, also when a turn.failed or error event was
\* captured or the exit code is not zero; it rejects only when no agent
\* text was produced.
C30_TextMeansSuccess ==
  [][\A t \in Tasks :
       (CodexTurn(t) /\ tasks'[t].pc \notin Waiting /\ tasks[t].final # <<>>)
         => tasks'[t].pc = "resolved" /\ tasks'[t].resText = tasks[t].final]_vars

\* ---- abortTurn of the ephemeral process

\* abortTurn was called for task t while its Codex turn was pending
AbortedCodexTurn(t) ==
  CodexTurn(t) /\ tasks[t].abortCalled /\ tasks[t].abortPhase = "turn"

\* C31: abortTurn on a Codex process whose child is running sends SIGINT
\* to that child, and the pending sendMessage rejects: after the abort it
\* never resolves.
C31_AbortRejects ==
  [][\A t \in Tasks :
       /\ (CodexTurn(t) /\ tasks[t].listening /\ tasks'[t].aborted /\ ~tasks[t].aborted
              /\ tasks[t].child # NoChild)
            => children'[tasks[t].child].killed
       /\ AbortedCodexTurn(t) => tasks'[t].pc # "resolved"]_vars

\* ---- the stop of the service

\* stopAll called by task t returns in this step
StopAllReturns(t) ==
  tasks[t].cmd = "stopall" /\ tasks[t].pc = "stopped" /\ tasks'[t].pc = "done"

\* C32: when stopAll returns the debounce timer is cancelled, the persisted
\* map is what the file holds, the process of every session is stopped,
\* the live map is empty, and no child of a process of the registry is
\* left running without having been signalled.
C32_StopAllStopsAll ==
  [][\A t \in Tasks :
       StopAllReturns(t) =>
         /\ saveTimer' = 0
         /\ \/ disk' = saveToDisk(persisted')
            \/ disk' = NoFile /\ persisted' = NonePersisted(Convs)
         /\ \A p \in ProcIds : procs'[p].backend # "none" => ~isAlive(procs'[p])
         /\ \A c \in Convs : sessions'[c] = NoProc
         /\ \A ch \in ChildIds : children'[ch].state = "running" => children'[ch].killed]_vars

\* ---- abortTurn of the persistent process

\* the user messages child ch has read or will read whose turn is no longer
\* registered: the child answers its messages in the order it got them, so
\* while there is one, the events it emits belong to a dropped turn
Orphans(ch) ==
  children[ch].pending - (IF procs[children[ch].proc].turn = NoTask THEN 0 ELSE 1)

\* C33: abortTurn on a Claude process leaves the child alive and the
\* process not busy; the deltas and the result the child still emits for
\* the aborted turn do not reach the sink of the aborted turn, and neither
\* add text to a turn started later nor resolve it.
C33_TrailingEventsDiscarded ==
  [][/\ \A t \in Tasks :
          (ClaudeTurn(t) /\ tasks[t].listening /\ tasks'[t].aborted /\ ~tasks[t].aborted)
            => /\ procs'[tasks[t].proc].child = procs[tasks[t].proc].child
               /\ procs'[tasks[t].proc].alive = procs[tasks[t].proc].alive
               /\ ~isBusy(procs'[tasks[t].proc])
     /\ \A t \in Tasks :
          (tasks[t].abortCalled /\ tasks[t].abortPhase = "turn" /\ ProcOf(t).backend = "claude")
            => tasks'[t].delivered = tasks[t].delivered
     /\ \A ch \in ChildIds :
          LET p == children[ch].proc
              u == procs[p].turn
          IN (/\ ClaudeChild(ch)
              /\ ~children[ch].killed
              /\ Orphans(ch) >= 1
              /\ u # NoTask
              /\ children'[ch].state = "running"
              /\ children'[ch].pending <= children[ch].pending)
               => /\ Len(procs'[p].prose) <= Len(procs[p].prose)
                  /\ tasks'[u].delivered = tasks[u].delivered
                  /\ tasks'[u].pc # "resolved"]_vars

\* ---- stop() of the ephemeral process

\* the sendMessage of task t spawns a child in this step
Spawns(t) ==
  \/ tasks[t].pc \in {"send1", "send2"} /\ tasks'[t].pc \in Waiting
  \/ tasks[t].pc \in Waiting /\ tasks'[t].pc \in Waiting /\ tasks'[t].spawns > tasks[t].spawns

\* C34: stop() of a Codex process whose child is running signals the
\* child; from then on, until restart() is called, the process spawns no
\* child (the resume-retry of the interrupted turn included) and a
\* sendMessage on it is rejected.
C34_StoppedSpawnsNothing ==
  [][\A p \in ProcIds :
       /\ (procs[p].backend = "codex" /\ ~procs[p].stopped /\ procs'[p].stopped
              /\ procs[p].child # NoChild)
            => children'[procs[p].child].killed
       /\ (procs[p].backend = "codex" /\ procs[p].stopped)
            => \A t \in Tasks :
                 tasks[t].proc = p =>
                   /\ ~Spawns(t)
                   /\ tasks[t].pc \in {"send1", "send2"}
                        => tasks'[t].pc \in {"caught1", "caught2"}]_vars

\* ---- createSession over a persisted entry of the other backend

\* createSession(c, ..) without a resume id of the caller's is called in
\* this step, and the persisted entry of c is of another backend than the
\* session it creates
CreatesOverMismatch(c) ==
  /\ sessions'[c] # NoProc
  /\ sessions'[c] # sessions[c]
  /\ persisted[c] # NoPersisted
  /\ persisted[c].backend # procs'[sessions'[c]].backend

\* C35: createSession for a conversation whose persisted entry is of
\* another backend than resolveBackend(model) clears that persisted entry
\* and creates the session without a resume id.
C35_MismatchClearsPersisted ==
  [][\A c \in Convs :
       CreatesOverMismatch(c) =>
         /\ persisted'[c] = NoPersisted
         /\ procs'[sessions'[c]].resumeId = NoSid]_vars

\* ---- the HTTP mutex after a failure

\* the HTTP request t waits for the mutex
Queued(t) == tasks[t].kind = "http" /\ tasks[t].pc = "queued"

\* C36: a request whose handler fails inside the HTTP mutex does not block
\* the later ones: if every handler that runs settles, every request
\* queued on the mutex gets to run; and an error is reported only to the
\* request whose own two sendMessage calls failed.
C36_FailureReleasesMutex ==
  /\ (\A t \in HttpTasks : Serving(t) ~> ~Serving(t))
       => (\A t \in HttpTasks : Queued(t) ~> ~Queued(t))
  /\ [](\A t \in HttpRequests : tasks[t].errors > 0 => tasks[t].fails = 2)

\* a request that called mutex.run while another held the mutex runs after
\* the handler of that other one has failed
C36_Witness ==
  \E t, u \in HttpRequests :
    /\ tasks[u].behind = t
    /\ tasks[t].errors = 1
    /\ tasks[t].pc = "done"
    /\ tasks[u].pc \notin {"idle", "queued"}

\* ---- ownership of the processes

\* process p was constructed and is running: started and not stopped
Running(p) == procs[p].backend # "none" /\ isAlive(procs[p])

\* C37: every running backend process is the process of exactly one
\* session of the live map; the restart-and-retry of the handler never
\* restarts a process whose session was removed during the turn.
C37_RunningIsOwned ==
  \A p \in ProcIds :
    Running(p) => Cardinality({c \in Convs : sessions[c] = p}) = 1

\* ---- late events of a stopped child

\* child ch of a Claude process closes in this step, after restart() has
\* given the process another child
LateClose(ch) ==
  /\ ClaudeChild(ch)
  /\ children'[ch].state = "none"
  /\ procs[children[ch].proc].child \notin {NoChild, ch}
  /\ procs[children[ch].proc].alive

\* C38: the close of a child that stop() gave up waiting for does not
\* change the state of the Claude process after restart(): the process
\* stays alive with its new child, and the turn in flight stays pending.
C38_LateCloseIsIgnored ==
  [][\A ch \in ChildIds :
       LateClose(ch) =>
         LET p == children[ch].proc
             u == procs[p].turn
         IN /\ procs'[p].alive
            /\ procs'[p].child = procs[p].child
            /\ procs'[p].turn = u
            /\ u # NoTask => tasks'[u].pc = tasks[u].pc]_vars

\* ---- createSession over an entry of the live map

\* createSession(c, ..) replaces the entry conversation c has in the live
\* map in this step
Replaces(c) ==
  /\ sessions[c] # NoProc
  /\ sessions'[c] # NoProc
  /\ sessions'[c] # sessions[c]

\* C39: createSession for a conversation that has an entry in the live map
\* evicts no session of another conversation.
C39_ReplaceEvictsNoOther ==
  [][\A c \in Convs :
       Replaces(c) => \A d \in Convs \ {c} : sessions'[d] = sessions[d]]_vars

\* ---- the message after a /resume

\* task t is a /resume that created its session and replied
ResumeDone(t) == tasks[t].cmd = "resume" /\ tasks[t].pc = "done" /\ tasks[t].made # NoProc

\* the handler of the regular message u gets its session in this step
GetsSession(u) ==
  /\ tasks[u].cmd = "msg"
  /\ tasks[u].pc \in {"lookup", "queued"}
  /\ tasks'[u].pc # tasks[u].pc

\* the backend the effective model of the message u resolves to
RequestedBackend(u) ==
  resolveBackend(IF tasks[u].kind = "http" THEN effectiveModel(u)
                 ELSE getModelForConversation(tasks[u].conv))

\* the resumed session of t is one the turn coordinator keeps for the
\* message u: its process is alive and of the backend the effective model of
\* the message resolves to
Kept(t, u) ==
  /\ isAlive(procs[tasks[t].made])
  /\ procs[tasks[t].made].backend = RequestedBackend(u)

\* the message u is the next task after the /resume t of its conversation and
\* gets its session in this step
NextGetsSession(t, u) ==
  ResumeDone(t) /\ u = t + 1 /\ MessageAfter(u, t) /\ GetsSession(u)

====
